---- MODULE Spec2Model ----
(***************************************************************************)
(* Waterius ESP8266 firmware: remote configuration synchronisation, the    *)
(* settings merge engine, the session counter-type context and the        *)
(* reboot-loop guard of the wake cycle.                                   *)
(*                                                                         *)
(* Strings are TLA+ strings (Len gives their length).  JSON documents are *)
(* functions from field names to values; a field that is absent or null   *)
(* is outside the DOMAIN.  Documents are well typed per field (numbers    *)
(* for numeric fields, strings for string fields, booleans for flags).    *)
(***************************************************************************)
EXTENDS Integers, Sequences, FiniteSets, TLC

(***************************************************************************)
(* Program constants                                                       *)
(***************************************************************************)
SETUP_MODE == 1
TRANSMIT_MODE == 2
MANUAL_TRANSMIT_MODE == 3

NAMUR == 0
ELECTRONIC == 2
NONE == 255

REMOTE_CONFIG_MAX_SIZE == 2048
HTTP_SEND_ATTEMPTS == 3

MQTT_MAX_TRIES == 5
UINT16_MAX == 65535

SERIAL_LEN == 16
WIFI_SSID_LEN == 32
WIFI_PWD_LEN == 64
HOST_LEN == 64
MQTT_LOGIN_LEN == 32
MQTT_PASSWORD_LEN == 66
MQTT_TOPIC_LEN == 64
WATERIUS_KEY_LEN == 34
EMAIL_LEN == 40
COMPANY_LEN == 32
PLACE_LEN == 32
COUNTER_NAME_MAX == 11

(***************************************************************************)
(* Bounds of the model                                                     *)
(***************************************************************************)
MaxPush == 2

\* impulses the peripheral counts in one run, both channels together
MaxImpulses == 2

(***************************************************************************)
(* Helpers                                                                 *)
(***************************************************************************)
Pow2(n) == 2 ^ n

\* ArduinoJson as<T>() for an unsigned integer type of `bits` bits: a value
\* that does not fit the type converts to 0.  bits = 0 stands for float.
\* Every non-negative value of the model fits uint32_t.
AsNum(v, bits) ==
    IF bits = 0 THEN v
    ELSE IF v < 0 THEN 0
    ELSE IF bits >= 31 THEN v
    ELSE IF v < Pow2(bits) THEN v ELSE 0

\* C++ conversion of an int to an unsigned field of `bits` bits
Trunc(v, bits) == v % Pow2(bits)

AsBool(b) == IF b THEN 1 ELSE 0

Has(doc, k) == k \in DOMAIN doc

Last(s) == s[Len(s)]

\* IPAddress::fromString on a dotted quad given as its parsed parts
IpFromString(parts) ==
    /\ Len(parts) = 4
    /\ \A i \in 1..4 : parts[i] >= 0 /\ parts[i] <= 255

(***************************************************************************)
(* Settings                                                                *)
(***************************************************************************)
DefaultSettings ==
    [ config_restart_pending |-> 0,
      wake_on_consumption_only |-> 0,
      wakeup_per_min |-> 1440,
      period_min_tuned |-> 1440,
      wakeups_without_send |-> 0,
      channel0_start |-> 0, channel1_start |-> 0,
      impulses0_start |-> 0, impulses1_start |-> 0,
      impulses0_previous |-> 0, impulses1_previous |-> 0,
      factor0 |-> 10, factor1 |-> 10,
      counter0_name |-> 0, counter1_name |-> 0,
      serial0 |-> "", serial1 |-> "",
      wifi_ssid |-> "", wifi_password |-> "",
      mqtt_on |-> 0, mqtt_host |-> "", mqtt_port |-> 1883,
      mqtt_login |-> "", mqtt_password |-> "", mqtt_topic |-> "",
      http_on |-> 0, http_url |-> "",
      ntp_server |-> "",
      waterius_on |-> 0, waterius_host |-> "", waterius_key |-> "",
      waterius_email |-> "",
      company |-> "", place |-> "",
      mqtt_auto_discovery |-> 0, mqtt_discovery_topic |-> "",
      dhcp_off |-> 0, ip |-> <<0, 0, 0, 0>>, gateway |-> <<0, 0, 0, 0>>,
      mask |-> <<0, 0, 0, 0>>,
      mdns_on |-> 0,
      setup_time |-> 0 ]

is_waterius_site(s) == s.waterius_on # 0 /\ s.waterius_host # ""

is_mqtt(s) == s.mqtt_on # 0 /\ s.mqtt_host # ""

reset_period_min_tuned(s) == [s EXCEPT !.period_min_tuned = s.wakeup_per_min]

(***************************************************************************)
(* Bounded response validator (https_helpers.cpp)                          *)
(* A response is [code, size, body]: the status code, the Content-Length   *)
(* reported by getSize() (-1 when the header is missing) and the body that *)
(* getString() would return.  The result records whether getString() was   *)
(* invoked and which check rejected the response.                          *)
(***************************************************************************)
\* the placeholder where there is no parsed document
NoDoc == [nodoc |-> TRUE]

EmptyBody == [len |-> 0, first |-> "", parse_ok |-> FALSE, doc |-> NoDoc]

\* variant: a declared size of zero passes the second check
validate_and_get_response_ZeroSize(resp) ==
    IF resp.code # 200
    THEN [ok |-> FALSE, out |-> EmptyBody, read |-> FALSE, why |-> "code"]
    ELSE IF resp.size < 0
    THEN [ok |-> FALSE, out |-> EmptyBody, read |-> FALSE, why |-> "nosize"]
    ELSE IF resp.size > REMOTE_CONFIG_MAX_SIZE
    THEN [ok |-> FALSE, out |-> EmptyBody, read |-> FALSE, why |-> "large"]
    ELSE [ok |-> TRUE, out |-> resp.body, read |-> TRUE, why |-> ""]

validate_and_get_response(resp) ==
    IF resp.code # 200
    THEN [ok |-> FALSE, out |-> EmptyBody, read |-> FALSE, why |-> "code"]
    ELSE IF resp.size <= 0
    THEN [ok |-> FALSE, out |-> EmptyBody, read |-> FALSE, why |-> "nosize"]
    ELSE IF resp.size > REMOTE_CONFIG_MAX_SIZE
    THEN [ok |-> FALSE, out |-> EmptyBody, read |-> FALSE, why |-> "large"]
    ELSE [ok |-> TRUE, out |-> resp.body, read |-> TRUE, why |-> ""]

(***************************************************************************)
(* Key authenticator (remote_config.cpp)                                   *)
(***************************************************************************)
\* variant: a document without a key field is let through
validate_device_key_AbsentOk(doc, key) ==
    IF Has(doc, "key")
    THEN doc["key"] = key
    ELSE TRUE

validate_device_key(doc, key) ==
    IF Has(doc, "key")
    THEN doc["key"] = key
    ELSE FALSE

(***************************************************************************)
(* Settings merge engine (remote_config.cpp, apply_config_from_server)     *)
(*                                                                         *)
(* MergeSteps lists the statements of apply_config_from_server in source   *)
(* order.  kind "num" is APPLY_CFG_NUM, "str" is APPLY_CFG_STR, "bool" an  *)
(* unconditional as<bool>() assignment, "imp" the impulses assignment,     *)
(* "ctype" the counter-type pair, "wakeup" the wake period and "ip" a      *)
(* dotted-quad address.  gate names the Settings flag that encloses the    *)
(* statement ("" when there is none).  Readings (channel0, channel1) are   *)
(* floats; the model counts them in thousandths, in documents as in        *)
(* Settings, so the bounds 0.0f and 999999.0f are 0 and 999999 * 1000.     *)
(***************************************************************************)
Num(k, t, lo, hi, bits, g) ==
    [kind |-> "num", key |-> k, target |-> t, lo |-> lo, hi |-> hi,
     bits |-> bits, gate |-> g]

Str(k, t, maxlen, g) ==
    [kind |-> "str", key |-> k, target |-> t, lo |-> 0, hi |-> maxlen,
     bits |-> 0, gate |-> g]

Flag(k) ==
    [kind |-> "bool", key |-> k, target |-> k, lo |-> 0, hi |-> 1,
     bits |-> 0, gate |-> ""]

Imp(k, t) ==
    [kind |-> "imp", key |-> k, target |-> t, lo |-> 0, hi |-> 0,
     bits |-> 32, gate |-> ""]

Ip(k, t) ==
    [kind |-> "ip", key |-> k, target |-> t, lo |-> 0, hi |-> 0,
     bits |-> 0, gate |-> "dhcp_off"]

MergeSteps ==
    << Num("channel0", "channel0_start", 0, 999999 * 1000, 0, ""),
       Num("channel1", "channel1_start", 0, 999999 * 1000, 0, ""),
       Str("serial0", "serial0", SERIAL_LEN, ""),
       Str("serial1", "serial1", SERIAL_LEN, ""),
       Num("cname0", "counter0_name", 0, COUNTER_NAME_MAX, 8, ""),
       Num("cname1", "counter1_name", 0, COUNTER_NAME_MAX, 8, ""),
       Num("factor0", "factor0", 1, 10000, 16, ""),
       Num("factor1", "factor1", 1, 10000, 16, ""),
       Imp("impulses0", "0"),
       Imp("impulses1", "1"),
       [kind |-> "ctype", key |-> "ctype0", target |-> "", lo |-> 0,
        hi |-> 0, bits |-> 8, gate |-> ""],
       [kind |-> "wakeup", key |-> "wakeup_per_min",
        target |-> "wakeup_per_min", lo |-> 1, hi |-> 1440, bits |-> 16,
        gate |-> ""],
       Num("wake_on_consumption_only", "wake_on_consumption_only", 0, 1, 8, ""),
       Str("ssid", "wifi_ssid", WIFI_SSID_LEN, ""),
       Str("password", "wifi_password", WIFI_PWD_LEN, ""),
       Flag("mqtt_on"),
       Str("mqtt_host", "mqtt_host", HOST_LEN, "mqtt_on"),
       Num("mqtt_port", "mqtt_port", 1, 65535, 16, "mqtt_on"),
       Str("mqtt_login", "mqtt_login", MQTT_LOGIN_LEN, "mqtt_on"),
       Str("mqtt_password", "mqtt_password", MQTT_PASSWORD_LEN, "mqtt_on"),
       Str("mqtt_topic", "mqtt_topic", MQTT_TOPIC_LEN, "mqtt_on"),
       Flag("http_on"),
       Str("http_url", "http_url", HOST_LEN, "http_on"),
       Str("ntp_server", "ntp_server", HOST_LEN, ""),
       Str("waterius_host", "waterius_host", HOST_LEN, ""),
       Str("waterius_key", "waterius_key", WATERIUS_KEY_LEN, ""),
       Str("waterius_email", "waterius_email", EMAIL_LEN, ""),
       Flag("waterius_on"),
       Str("company", "company", COMPANY_LEN, ""),
       Str("place", "place", PLACE_LEN, ""),
       Flag("mqtt_auto_discovery"),
       Str("mqtt_discovery_topic", "mqtt_discovery_topic", MQTT_TOPIC_LEN, ""),
       Flag("dhcp_off"),
       Ip("static_ip", "ip"),
       Ip("gateway", "gateway"),
       Ip("mask", "mask"),
       Flag("mdns_on") >>

\* variant: the gates are not consulted
GateHolds_Open(s, step) == TRUE

\* the gate of a statement, evaluated on the settings as merged so far
GateHolds(s, step) == step.gate = "" \/ s[step.gate] # 0

\* variant: a value outside the range is clamped to the nearest bound
ApplyCfgNum_Clamp(st, step, doc) ==
    LET val == AsNum(doc[step.key], step.bits)
        v == IF val < step.lo THEN step.lo
             ELSE IF val > step.hi THEN step.hi ELSE val
    IN  [st EXCEPT !.sett[step.target] = v, !.changed = TRUE]

\* APPLY_CFG_NUM
ApplyCfgNum(st, step, doc) ==
    LET val == AsNum(doc[step.key], step.bits)
    IN  IF val >= step.lo /\ val <= step.hi
        THEN [st EXCEPT !.sett[step.target] = val, !.changed = TRUE]
        ELSE st

\* variant: a string as long as the storage is taken
ApplyCfgStr_FullSize(st, step, doc) ==
    LET str == doc[step.key]
    IN  IF Len(str) <= step.hi
        THEN [st EXCEPT !.sett[step.target] = str, !.changed = TRUE]
        ELSE st

\* APPLY_CFG_STR
ApplyCfgStr(st, step, doc) ==
    LET str == doc[step.key]
    IN  IF Len(str) <= step.hi - 1
        THEN [st EXCEPT !.sett[step.target] = str, !.changed = TRUE]
        ELSE st

\* impulsesN: both the start value and the baseline are replaced
ApplyImpulses(st, step, doc) ==
    LET imp == AsNum(doc[step.key], 32)
    IN  IF step.target = "0"
        THEN [st EXCEPT !.sett.impulses0_start = imp,
                        !.sett.impulses0_previous = imp,
                        !.changed = TRUE]
        ELSE [st EXCEPT !.sett.impulses1_start = imp,
                        !.sett.impulses1_previous = imp,
                        !.changed = TRUE]

\* variant: every type is permitted
ValidCounterType_Any(ct) == TRUE

ValidCounterType(ct) == ct = NAMUR \/ ct = ELECTRONIC \/ ct = NONE

\* MasterI2C::setCountersType: the peripheral takes the pair as a whole when
\* the I2C transfer succeeds (accept) and keeps its types otherwise
setCountersType(attiny, ct0, ct1, accept) ==
    IF accept
    THEN [attiny EXCEPT !.counter_type0 = ct0, !.counter_type1 = ct1]
    ELSE attiny

\* the member of the pair used for a counter the document does not name
MergeOtherType0(data, ctx) == data.counter_type0

MergeOtherType1(data, ctx) == data.counter_type1

\* the session context after the peripheral accepted a merged pair
MergeCtxAfterAccept(ctx, ct0, ct1) == ctx

\* variant: the pair counts as a change whatever the peripheral answers
ApplyCounterTypes_ChangedOnReject(st, doc, data, accept) ==
    LET ct0_present == Has(doc, "ctype0")
        ct1_present == Has(doc, "ctype1")
    IN  IF ct0_present \/ ct1_present
        THEN LET ct0 == IF ct0_present THEN AsNum(doc["ctype0"], 8)
                        ELSE MergeOtherType0(data, st.ctx)
                 ct1 == IF ct1_present THEN AsNum(doc["ctype1"], 8)
                        ELSE MergeOtherType1(data, st.ctx)
                 valid == ValidCounterType(ct0) /\ ValidCounterType(ct1)
                 call == [src |-> "merge", ct0 |-> ct0, ct1 |-> ct1,
                          ok |-> accept, has0 |-> ct0_present,
                          has1 |-> ct1_present, ctx0 |-> st.ctx.ctype0,
                          ctx1 |-> st.ctx.ctype1, pre0 |-> st.ctx.ctype0,
                          pre1 |-> st.ctx.ctype1, new |-> 0]
             IN  IF valid
                 THEN [st EXCEPT
                         !.attiny = setCountersType(@, ct0, ct1, accept),
                         !.calls = Append(@, call),
                         !.changed = TRUE]
                 ELSE st
        ELSE st

\* counter types: one call for the pair
ApplyCounterTypes(st, doc, data, accept) ==
    LET ct0_present == Has(doc, "ctype0")
        ct1_present == Has(doc, "ctype1")
    IN  IF ct0_present \/ ct1_present
        THEN LET ct0 == IF ct0_present THEN AsNum(doc["ctype0"], 8)
                        ELSE MergeOtherType0(data, st.ctx)
                 ct1 == IF ct1_present THEN AsNum(doc["ctype1"], 8)
                        ELSE MergeOtherType1(data, st.ctx)
                 valid == ValidCounterType(ct0) /\ ValidCounterType(ct1)
                 call == [src |-> "merge", ct0 |-> ct0, ct1 |-> ct1,
                          ok |-> accept, has0 |-> ct0_present,
                          has1 |-> ct1_present, ctx0 |-> st.ctx.ctype0,
                          ctx1 |-> st.ctx.ctype1, pre0 |-> st.ctx.ctype0,
                          pre1 |-> st.ctx.ctype1, new |-> 0]
             IN  IF valid
                 THEN [st EXCEPT
                         !.attiny = setCountersType(@, ct0, ct1, accept),
                         !.calls = Append(@, call),
                         !.ctx = IF accept
                                 THEN MergeCtxAfterAccept(@, ct0, ct1)
                                 ELSE @,
                         !.changed = IF accept THEN TRUE ELSE @]
                 ELSE st
        ELSE st

\* wakeup_per_min
ApplyWakeup(st, step, doc) ==
    LET period == AsNum(doc[step.key], 16)
    IN  IF period >= 1 /\ period <= 1440
        THEN [st EXCEPT
                !.sett = reset_period_min_tuned(
                            [@ EXCEPT !.wakeup_per_min = period]),
                !.changed = TRUE]
        ELSE st

\* static_ip / gateway / mask
ApplyIp(st, step, doc) ==
    IF IpFromString(doc[step.key])
    THEN [st EXCEPT !.sett[step.target] = doc[step.key], !.changed = TRUE]
    ELSE st

\* variant: a flag absent from the document is read as false
ApplyStep_FlagDefault(st, step, doc, data, accept) ==
    IF step.kind = "ctype" THEN ApplyCounterTypes(st, doc, data, accept)
    ELSE IF step.kind = "bool"
        THEN [st EXCEPT !.sett[step.target] =
                            IF Has(doc, step.key) THEN AsBool(doc[step.key])
                            ELSE 0,
                        !.changed = TRUE]
    ELSE IF ~Has(doc, step.key) \/ ~GateHolds(st.sett, step) THEN st
    ELSE IF step.kind = "num" THEN ApplyCfgNum(st, step, doc)
    ELSE IF step.kind = "str" THEN ApplyCfgStr(st, step, doc)
    ELSE IF step.kind = "imp" THEN ApplyImpulses(st, step, doc)
    ELSE IF step.kind = "wakeup" THEN ApplyWakeup(st, step, doc)
    ELSE ApplyIp(st, step, doc)

ApplyStep(st, step, doc, data, accept) ==
    IF step.kind = "ctype" THEN ApplyCounterTypes(st, doc, data, accept)
    ELSE IF ~Has(doc, step.key) \/ ~GateHolds(st.sett, step) THEN st
    ELSE IF step.kind = "num" THEN ApplyCfgNum(st, step, doc)
    ELSE IF step.kind = "str" THEN ApplyCfgStr(st, step, doc)
    ELSE IF step.kind = "imp" THEN ApplyImpulses(st, step, doc)
    ELSE IF step.kind = "wakeup" THEN ApplyWakeup(st, step, doc)
    ELSE IF step.kind = "bool"
        THEN [st EXCEPT !.sett[step.target] = AsBool(doc[step.key]),
                        !.changed = TRUE]
    ELSE ApplyIp(st, step, doc)

RECURSIVE ApplySteps(_, _, _, _, _)
ApplySteps(st, i, doc, data, accept) ==
    IF i > Len(MergeSteps) THEN st
    ELSE ApplySteps(ApplyStep(st, MergeSteps[i], doc, data, accept),
                    i + 1, doc, data, accept)

\* The merge works on a record of everything it can touch: the settings,
\* the peripheral, the session counter context, the setCountersType calls
\* made and the changed flag.
apply_config_from_server(s, doc, data, attiny, ctx, accept) ==
    ApplySteps([sett |-> s, changed |-> FALSE, attiny |-> attiny,
                ctx |-> ctx, calls |-> <<>>],
               1, doc, data, accept)

(***************************************************************************)
(* Text conversions of the Arduino String class.  A payload is a sequence  *)
(* of one-character strings.                                               *)
(***************************************************************************)
IsDigit(c) == c \in {"0", "1", "2", "3", "4", "5", "6", "7", "8", "9"}

DigitVal(c) ==
    CASE c = "0" -> 0 [] c = "1" -> 1 [] c = "2" -> 2 [] c = "3" -> 3
      [] c = "4" -> 4 [] c = "5" -> 5 [] c = "6" -> 6 [] c = "7" -> 7
      [] c = "8" -> 8 [] c = "9" -> 9

RECURSIVE SkipSpaces(_, _)
SkipSpaces(s, i) ==
    IF i <= Len(s) /\ s[i] = " " THEN SkipSpaces(s, i + 1) ELSE i

\* the digits of s from position i on: their value and the position after
RECURSIVE ParseDigits(_, _, _)
ParseDigits(s, i, acc) ==
    IF i <= Len(s) /\ IsDigit(s[i])
    THEN ParseDigits(s, i + 1, acc * 10 + DigitVal(s[i]))
    ELSE [val |-> acc, next |-> i]

\* at most n fraction digits from position i on, scaled to n places
RECURSIVE ParseFraction(_, _, _, _)
ParseFraction(s, i, n, acc) ==
    IF n = 0 THEN acc
    ELSE IF i <= Len(s) /\ IsDigit(s[i])
    THEN ParseFraction(s, i + 1, n - 1, acc * 10 + DigitVal(s[i]))
    ELSE ParseFraction(s, i, n - 1, acc * 10)

\* String::toInt (atol): leading blanks, a sign, digits; 0 without digits
toInt(s) ==
    LET i0 == SkipSpaces(s, 1)
        neg == i0 <= Len(s) /\ s[i0] = "-"
        i1 == IF i0 <= Len(s) /\ s[i0] \in {"-", "+"} THEN i0 + 1 ELSE i0
        d == ParseDigits(s, i1, 0)
    IN  IF neg THEN 0 - d.val ELSE d.val

\* String::toFloat (atof), in thousandths; payloads carry at most three
\* decimals
toFloat(s) ==
    LET i0 == SkipSpaces(s, 1)
        neg == i0 <= Len(s) /\ s[i0] = "-"
        i1 == IF i0 <= Len(s) /\ s[i0] \in {"-", "+"} THEN i0 + 1 ELSE i0
        d == ParseDigits(s, i1, 0)
        frac == IF d.next <= Len(s) /\ s[d.next] = "."
                THEN ParseFraction(s, d.next + 1, 3, 0) ELSE 0
        m == d.val * 1000 + frac
    IN  IF neg THEN 0 - m ELSE m

\* conversion of an int to int16_t
Int16(v) == ((v + 32768) % 65536) - 32768

(***************************************************************************)
(* Session counter-type context (ha/subscribe.cpp)                         *)
(***************************************************************************)
MqttCounterContext == [ctype0 |-> -1, ctype1 |-> -1]

MqttCounterContext_init(ctx, data) ==
    [ctype0 |-> IF ctx.ctype0 < 0 THEN data.counter_type0 ELSE ctx.ctype0,
     ctype1 |-> IF ctx.ctype1 < 0 THEN data.counter_type1 ELSE ctx.ctype1]

reset_mqtt_counter_context == MqttCounterContext

(***************************************************************************)
(* Push updates (ha/subscribe.cpp, update_settings)                        *)
(* A topic is the sequence of its path segments.  json is the JSON data    *)
(* document: a function from its keys to their values, empty until         *)
(* get_json_data has filled it.  st is [sett, json, ctx, attiny, calls,    *)
(* updated].  A record in calls is one setCountersType call: the pair      *)
(* (ct0, ct1), the answer ok, which members the caller supplied            *)
(* (has0, has1), the context at the call (ctx0, ctx1) and before its lazy  *)
(* initialisation (pre0, pre1), and the value a push asked for (new).      *)
(***************************************************************************)
EndsWithSet(topic) == Len(topic) >= 2 /\ Last(topic) = "set"

TopicParam(topic) == topic[Len(topic) - 1]

JsonSet(json, k, v) == [json EXCEPT ![k] = v]

PushPeriodMin(st, payload) ==
    LET period_min == toInt(payload)
    IN  IF period_min > 0 /\ st.sett.wakeup_per_min # period_min
        THEN LET s1 == reset_period_min_tuned(
                         [st.sett EXCEPT
                            !.wakeup_per_min = Trunc(period_min, 16)])
             IN  IF Has(st.json, "period_min")
                 THEN [st EXCEPT !.sett = s1,
                                 !.json = JsonSet(@, "period_min", period_min),
                                 !.updated = TRUE]
                 ELSE [st EXCEPT !.sett = s1]
        ELSE st

PushFactor(st, payload, target, jkey) ==
    LET f == toInt(payload)
    IN  IF f > 0 /\ st.sett[target] # f
        THEN LET s1 == [st.sett EXCEPT ![target] = Trunc(f, 16),
                                       !.setup_time = 0]
             IN  IF Has(st.json, jkey)
                 THEN [st EXCEPT !.sett = s1,
                                 !.json = JsonSet(@, jkey, f),
                                 !.updated = TRUE]
                 ELSE [st EXCEPT !.sett = s1]
        ELSE st

\* (int)(ch * 1000 + 5) / 1000.0, in thousandths
ChannelEcho(ch) == ch + 5

\* variant: the impulse baseline is left as it was
PushChannel_KeepBaseline(st, payload, data, n) ==
    LET ch == toFloat(payload)
        jkey == IF n = 0 THEN "ch0" ELSE "ch1"
        s1 == IF n = 0
              THEN [st.sett EXCEPT !.channel0_start = ch, !.setup_time = 0]
              ELSE [st.sett EXCEPT !.channel1_start = ch, !.setup_time = 0]
    IN  IF ch >= 0
        THEN [st EXCEPT !.sett = s1,
                        !.json = IF Has(@, jkey)
                                 THEN JsonSet(@, jkey, ChannelEcho(ch))
                                 ELSE @,
                        !.updated = TRUE]
        ELSE st

PushChannel(st, payload, data, n) ==
    LET ch == toFloat(payload)
        jkey == IF n = 0 THEN "ch0" ELSE "ch1"
        s1 == IF n = 0
              THEN [st.sett EXCEPT !.channel0_start = ch,
                                   !.impulses0_start = data.impulses0,
                                   !.setup_time = 0]
              ELSE [st.sett EXCEPT !.channel1_start = ch,
                                   !.impulses1_start = data.impulses1,
                                   !.setup_time = 0]
    IN  IF ch >= 0
        THEN [st EXCEPT !.sett = s1,
                        !.json = IF Has(@, jkey)
                                 THEN JsonSet(@, jkey, ChannelEcho(ch))
                                 ELSE @,
                        !.updated = TRUE]
        ELSE st

PushCounterName(st, payload, target, jkey) ==
    LET cname == toInt(payload)
    IN  IF st.sett[target] # cname
        THEN [st EXCEPT !.sett = [@ EXCEPT ![target] = Trunc(cname, 8),
                                           !.setup_time = 0],
                        !.json = IF Has(@, jkey)
                                 THEN JsonSet(@, jkey, cname) ELSE @,
                        !.updated = IF Has(st.json, jkey) THEN TRUE ELSE @]
        ELSE st

\* the pair a ctype0 / ctype1 push submits to the peripheral
PushPair0(ctx, data, ctype0) == <<Trunc(ctype0, 8), Trunc(ctx.ctype1, 8)>>

\* variant: the other member is taken from the snapshot
PushPair1_Snapshot(ctx, data, ctype1) ==
    <<Trunc(data.counter_type0, 8), Trunc(ctype1, 8)>>

PushPair1(ctx, data, ctype1) == <<Trunc(ctx.ctype0, 8), Trunc(ctype1, 8)>>

\* the context after a ctype0 / ctype1 push whose pair was accepted or not
PushCtx0(ctx, ctype0, accept) ==
    IF accept THEN [ctx EXCEPT !.ctype0 = Int16(ctype0)] ELSE ctx

PushCtx1(ctx, ctype1, accept) ==
    IF accept THEN [ctx EXCEPT !.ctype1 = Int16(ctype1)] ELSE ctx

PushCounterType(st, payload, data, pre, n, accept) ==
    LET ctype == toInt(payload)
        cur == IF n = 0 THEN st.ctx.ctype0 ELSE st.ctx.ctype1
        pair == IF n = 0 THEN PushPair0(st.ctx, data, ctype)
                ELSE PushPair1(st.ctx, data, ctype)
        jkey == IF n = 0 THEN "ctype0" ELSE "ctype1"
        call == [src |-> IF n = 0 THEN "push0" ELSE "push1",
                 ct0 |-> pair[1], ct1 |-> pair[2], ok |-> accept,
                 has0 |-> n = 0, has1 |-> n = 1,
                 ctx0 |-> st.ctx.ctype0, ctx1 |-> st.ctx.ctype1,
                 pre0 |-> pre.ctype0, pre1 |-> pre.ctype1,
                 new |-> ctype]
    IN  IF cur # ctype
        THEN [st EXCEPT
                !.attiny = setCountersType(@, pair[1], pair[2], accept),
                !.calls = Append(@, call),
                !.ctx = IF n = 0 THEN PushCtx0(@, ctype, accept)
                        ELSE PushCtx1(@, ctype, accept),
                !.updated = IF accept THEN TRUE ELSE @,
                !.json = IF accept /\ Has(@, jkey)
                         THEN JsonSet(@, jkey, ctype) ELSE @,
                !.sett.setup_time = 0]
        ELSE st

update_settings(topic, payload, s, data, json, ctx, attiny, accept) ==
    LET st == [sett |-> s, json |-> json,
               ctx |-> MqttCounterContext_init(ctx, data),
               attiny |-> attiny, calls |-> <<>>, updated |-> FALSE]
        param == TopicParam(topic)
    IN  IF ~EndsWithSet(topic) THEN st
        ELSE IF param = "period_min" THEN PushPeriodMin(st, payload)
        ELSE IF param = "f0" THEN PushFactor(st, payload, "factor0", "f0")
        ELSE IF param = "f1" THEN PushFactor(st, payload, "factor1", "f1")
        ELSE IF param = "ch0" THEN PushChannel(st, payload, data, 0)
        ELSE IF param = "ch1" THEN PushChannel(st, payload, data, 1)
        ELSE IF param = "cname0"
            THEN PushCounterName(st, payload, "counter0_name", "cname0")
        ELSE IF param = "cname1"
            THEN PushCounterName(st, payload, "counter1_name", "cname1")
        ELSE IF param = "ctype0"
            THEN PushCounterType(st, payload, data, ctx, 0, accept)
        ELSE IF param = "ctype1"
            THEN PushCounterType(st, payload, data, ctx, 1, accept)
        ELSE st

(***************************************************************************)
(* Remote config fetcher and the two merge entry points                    *)
(* (remote_config.cpp).  An outcome of one HTTP exchange is                *)
(* [begin, code, size, body]: begin is the result of HTTPClient::begin.    *)
(* The results carry the events of the call: "fetch" a request sent,       *)
(* "merge" apply_config_from_server invoked, "store0"/"store1" a           *)
(* store_config of settings whose guard flag is 0/1.                       *)
(***************************************************************************)
\* the address of the pull request; an address is a sequence of characters
CfgUrl(url) ==
    IF Len(url) > 0 /\ url[Len(url)] = "/"
    THEN url \o <<"c", "f", "g">>
    ELSE url \o <<"/", "c", "f", "g">>

\* variant: the request is made whatever the key is
fetch_config_from_server_AnyKey(key, out) ==
    IF ~out.begin
    THEN [ok |-> FALSE, doc |-> NoDoc, sent |-> FALSE, client |-> TRUE]
    ELSE LET v == validate_and_get_response(out)
         IN  IF v.ok /\ v.out.parse_ok
             THEN [ok |-> TRUE, doc |-> v.out.doc, sent |-> TRUE,
                   client |-> TRUE]
             ELSE [ok |-> FALSE, doc |-> NoDoc, sent |-> TRUE,
                   client |-> TRUE]

\* client: a WiFiClient was created; sent: HTTPClient::begin succeeded and
\* the GET was issued
fetch_config_from_server(key, out) ==
    IF key = ""
    THEN [ok |-> FALSE, doc |-> NoDoc, sent |-> FALSE, client |-> FALSE]
    ELSE IF ~out.begin
    THEN [ok |-> FALSE, doc |-> NoDoc, sent |-> FALSE, client |-> TRUE]
    ELSE LET v == validate_and_get_response(out)
         IN  IF v.ok /\ v.out.parse_ok
             THEN [ok |-> TRUE, doc |-> v.out.doc, sent |-> TRUE,
                   client |-> TRUE]
             ELSE [ok |-> FALSE, doc |-> NoDoc, sent |-> TRUE,
                   client |-> TRUE]

StoreEvent(s) == IF s.config_restart_pending # 0 THEN "store1" ELSE "store0"

\* variant: the merge is applied but never reported as a change
AuthAndMerge_NoReport(doc, key, s, data, attiny, ctx, accept, ev) ==
    LET unchanged == [ret |-> FALSE, sett |-> s, attiny |-> attiny,
                      ctx |-> ctx, calls |-> <<>>, stored |-> FALSE,
                      ev |-> ev, parsed |-> TRUE, merged |-> FALSE,
                      doc |-> doc, key |-> key]
    IN  IF ~validate_device_key(doc, key) THEN unchanged
        ELSE LET m == apply_config_from_server(s, doc, data, attiny, ctx,
                                               accept)
             IN  [ret |-> FALSE, sett |-> m.sett, attiny |-> m.attiny,
                  ctx |-> m.ctx, calls |-> m.calls, stored |-> FALSE,
                  ev |-> ev \o <<"merge">>,
                  parsed |-> TRUE, merged |-> TRUE, doc |-> doc,
                  key |-> key]

\* the part shared by both entry points once a document has been parsed:
\* authenticate, merge, store when changed
AuthAndMerge(doc, key, s, data, attiny, ctx, accept, ev) ==
    LET unchanged == [ret |-> FALSE, sett |-> s, attiny |-> attiny,
                      ctx |-> ctx, calls |-> <<>>, stored |-> FALSE,
                      ev |-> ev, parsed |-> TRUE, merged |-> FALSE,
                      doc |-> doc, key |-> key]
    IN  IF ~validate_device_key(doc, key) THEN unchanged
        ELSE LET m == apply_config_from_server(s, doc, data, attiny, ctx,
                                               accept)
             IN  [ret |-> m.changed, sett |-> m.sett, attiny |-> m.attiny,
                  ctx |-> m.ctx, calls |-> m.calls, stored |-> m.changed,
                  ev |-> IF m.changed
                         THEN ev \o <<"merge", StoreEvent(m.sett)>>
                         ELSE ev \o <<"merge">>,
                  parsed |-> TRUE, merged |-> TRUE, doc |-> doc,
                  key |-> key]

NoMerge(s, attiny, ctx, ev) ==
    [ret |-> FALSE, sett |-> s, attiny |-> attiny, ctx |-> ctx,
     calls |-> <<>>, stored |-> FALSE, ev |-> ev, parsed |-> FALSE,
     merged |-> FALSE, doc |-> NoDoc, key |-> ""]

fetch_and_apply_remote_config(key, s, data, attiny, ctx, out, accept) ==
    LET f == fetch_config_from_server(key, out)
        ev == IF f.sent THEN <<"fetch">> ELSE <<>>
    IN  IF ~f.ok THEN NoMerge(s, attiny, ctx, ev)
        ELSE AuthAndMerge(f.doc, key, s, data, attiny, ctx, accept, ev)

\* variant: no lower limit on the length of the body
apply_config_from_response_NoMinimum(body, key, s, data, attiny, ctx, accept) ==
    IF body.len > REMOTE_CONFIG_MAX_SIZE
    THEN NoMerge(s, attiny, ctx, <<>>)
    ELSE IF body.first # "{" /\ body.first # "["
    THEN NoMerge(s, attiny, ctx, <<>>)
    ELSE IF ~body.parse_ok THEN NoMerge(s, attiny, ctx, <<>>)
    ELSE AuthAndMerge(body.doc, key, s, data, attiny, ctx, accept, <<>>)

apply_config_from_response(body, key, s, data, attiny, ctx, accept) ==
    IF body.len < 10 THEN NoMerge(s, attiny, ctx, <<>>)
    ELSE IF body.len > REMOTE_CONFIG_MAX_SIZE
    THEN NoMerge(s, attiny, ctx, <<>>)
    ELSE IF body.first # "{" /\ body.first # "["
    THEN NoMerge(s, attiny, ctx, <<>>)
    ELSE IF ~body.parse_ok THEN NoMerge(s, attiny, ctx, <<>>)
    ELSE AuthAndMerge(body.doc, key, s, data, attiny, ctx, accept, <<>>)

\* variant: the result of post_data is the verdict of the validator
post_data_ValidatorResult(out, prev_body) ==
    IF ~out.begin THEN [result |-> FALSE, body |-> prev_body]
    ELSE [result |-> validate_and_get_response(out).ok,
          body |-> validate_and_get_response(out).out]

\* post_data: result and the response body left in *response
post_data(out, prev_body) ==
    IF ~out.begin THEN [result |-> FALSE, body |-> prev_body]
    ELSE [result |-> out.code = 200,
          body |-> validate_and_get_response(out).out]

\* variant: the attempt counter is tested before it is decremented
SendLoopContinue_PostDecrement(res, att) == ~res /\ att # 0

\* while (!result && --attempts)
SendLoopContinue(res, att) == ~res /\ att - 1 # 0

\* variant: the body of the first attempt is the one kept
RECURSIVE SendLoop_FirstBody(_, _, _, _)
SendLoop_FirstBody(outs, i, att, body) ==
    LET r == post_data(outs[i], body)
        kept == IF i = 1 THEN outs[1].body ELSE body
    IN  IF SendLoopContinue(r.result, att)
        THEN SendLoop_FirstBody(outs, i + 1, att - 1, kept)
        ELSE [result |-> r.result, body |-> kept, made |-> i]

\* the do-while loop of send_waterius / send_http over the outcomes of the
\* successive exchanges: result, response_body and the attempts made
RECURSIVE SendLoop(_, _, _, _)
SendLoop(outs, i, att, body) ==
    LET r == post_data(outs[i], body)
    IN  IF SendLoopContinue(r.result, att)
        THEN SendLoop(outs, i + 1, att - 1, r.body)
        ELSE [result |-> r.result, body |-> r.body, made |-> i]

\* mqtt_connect over the results of the successive connect calls
RECURSIVE mqtt_connect(_, _, _)
mqtt_connect(conns, i, att) ==
    IF conns[i] THEN [ret |-> TRUE, made |-> i]
    ELSE IF att - 1 # 0 THEN mqtt_connect(conns, i + 1, att - 1)
    ELSE [ret |-> FALSE, made |-> i]

(***************************************************************************)
(* Collaborators of the wake cycle that the cycle only calls               *)
(***************************************************************************)
\* store_config: the settings become the persisted image
store_config(s) == [valid |-> TRUE, sett |-> s]

\* calculate_values: consumption since the previous transmission
Delta0(s, d) == (d.impulses0 - s.impulses0_previous) * s.factor0

Delta1(s, d) == (d.impulses1 - s.impulses1_previous) * s.factor1

\* channel readings in thousandths
Channel0(s, d) == s.channel0_start + (d.impulses0 - s.impulses0_start) * s.factor0

Channel1(s, d) == s.channel1_start + (d.impulses1 - s.impulses1_start) * s.factor1

\* update_config: the baselines follow the snapshot after a transmission
update_config(s, d) ==
    [s EXCEPT !.impulses0_previous = d.impulses0,
              !.impulses1_previous = d.impulses1]

\* get_json_data: the keys of the data document the push updates consult
EmptyJson == [k \in {} |-> 0]

get_json_data(s, d) ==
    [period_min |-> s.wakeup_per_min,
     f0 |-> s.factor0, f1 |-> s.factor1,
     ch0 |-> Channel0(s, d), ch1 |-> Channel1(s, d),
     cname0 |-> s.counter0_name, cname1 |-> s.counter1_name,
     ctype0 |-> d.counter_type0, ctype1 |-> d.counter_type1]

\* the settings page of the access point replaces the fields it shows
Override(s, cfg) ==
    [f \in DOMAIN s |-> IF f \in DOMAIN cfg THEN cfg[f] ELSE s[f]]

(***************************************************************************)
(* Guards and restart sequences of the reboot-loop guard                   *)
(***************************************************************************)
\* variant: the senders do not consult the flag
EmbeddedConfigAllowed_NoGuard(s) == TRUE

\* sender_waterius.h / sender_http.h: if (!sett.config_restart_pending)
EmbeddedConfigAllowed(s) == s.config_restart_pending = 0

\* variant: the pull fetch does not consult the flag
PullAllowed_NoGuard(m, s) == m = MANUAL_TRANSMIT_MODE

\* main.cpp: if (mode == MANUAL_TRANSMIT_MODE && !sett.config_restart_pending)
PullAllowed(m, s) == m = MANUAL_TRANSMIT_MODE /\ s.config_restart_pending = 0

\* the event of a read of the flag
FlagRead(s) == IF s.config_restart_pending # 0 THEN "rdT" ELSE "rdF"

\* variant: store_config runs before the flag is set
ConfigRestart_StoreFirst(s) ==
    LET s1 == [s EXCEPT !.config_restart_pending = 1]
    IN  [sett |-> s1, image |-> store_config(s),
         ev |-> <<StoreEvent(s), "set", "shutdown", "restart">>]

\* config changed: set the flag, store_config, wifi_shutdown, ESP.restart.
\* sett is the memory at the restart, image what store_config persisted.
ConfigRestart(s) ==
    LET s1 == [s EXCEPT !.config_restart_pending = 1]
    IN  [sett |-> s1, image |-> store_config(s1),
         ev |-> <<"set", StoreEvent(s1), "shutdown", "restart">>]

\* variant: the network is released before store_config
SetupRestart_ShutdownFirst(s) ==
    [sett |-> s, image |-> store_config(s),
     ev |-> <<"shutdown", StoreEvent(s), "restart">>]

\* end of setup mode: store_config, wifi_shutdown, ESP.restart
SetupRestart(s) ==
    [sett |-> s, image |-> store_config(s),
     ev |-> <<StoreEvent(s), "shutdown", "restart">>]

\* end of cycle: clear the flag if set, then store_config
ClearGuard(s) ==
    IF s.config_restart_pending # 0
    THEN [sett |-> [s EXCEPT !.config_restart_pending = 0],
          ev |-> <<FlagRead(s), "clear">>]
    ELSE [sett |-> s, ev |-> <<FlagRead(s)>>]

(***************************************************************************)
(* Inputs of the wake-cycle model                                          *)
(***************************************************************************)
Modes == {SETUP_MODE, TRANSMIT_MODE, MANUAL_TRANSMIT_MODE}

\* what the user can save on the settings page of the access point
PortalConfigs ==
    { [waterius_on |-> 1, waterius_host |-> "https://w",
       waterius_key |-> "k1", http_on |-> 0, http_url |-> "",
       mqtt_on |-> 0, mqtt_host |-> "", wake_on_consumption_only |-> 1],
      [waterius_on |-> 0, waterius_host |-> "",
       waterius_key |-> "k1", http_on |-> 1, http_url |-> "http://h",
       mqtt_on |-> 1, mqtt_host |-> "m", wake_on_consumption_only |-> 0] }

\* documents a server can return
CycleDocs ==
    { [factor0 |-> 20],
      [key |-> "k2", factor0 |-> 20],
      [key |-> "k1"],
      [key |-> "k1", factor0 |-> 20, wake_on_consumption_only |-> 1],
      [key |-> "k1", ctype1 |-> ELECTRONIC] }

JsonBody(doc) == [len |-> 40, first |-> "{", parse_ok |-> TRUE, doc |-> doc]

\* outcomes of one HTTP exchange
CycleOutcomes ==
    { [begin |-> FALSE, code |-> 0, size |-> 0, body |-> EmptyBody],
      [begin |-> TRUE, code |-> 404, size |-> 40,
       body |-> JsonBody([key |-> "k1", factor0 |-> 20])],
      [begin |-> TRUE, code |-> 200, size |-> -1,
       body |-> JsonBody([key |-> "k1", factor0 |-> 20])],
      [begin |-> TRUE, code |-> 200, size |-> 0,
       body |-> EmptyBody],
      [begin |-> TRUE, code |-> 200, size |-> REMOTE_CONFIG_MAX_SIZE + 1,
       body |-> [len |-> REMOTE_CONFIG_MAX_SIZE + 1, first |-> "{",
                 parse_ok |-> TRUE,
                 doc |-> [key |-> "k1", factor0 |-> 20]]],
      [begin |-> TRUE, code |-> 200, size |-> 2,
       body |-> [len |-> 2, first |-> "O", parse_ok |-> FALSE,
                 doc |-> NoDoc]],
      [begin |-> TRUE, code |-> 200, size |-> 40,
       body |-> [len |-> 40, first |-> "{", parse_ok |-> FALSE,
                 doc |-> NoDoc]] }
    \cup { [begin |-> TRUE, code |-> 200, size |-> 40, body |-> JsonBody(d)] :
           d \in CycleDocs }

\* push messages: topic segments and payload characters
PushMessages ==
    { [topic |-> <<"dev", "ctype0", "set">>, payload |-> <<"2">>],
      [topic |-> <<"dev", "ctype1", "set">>, payload |-> <<"2">>] }

(***************************************************************************)
(* State                                                                   *)
(***************************************************************************)
VARIABLES
    eeprom,             \* persisted settings image: [valid, sett]
    attiny,             \* the peripheral: counter types and impulse counts
    sett,               \* Settings in memory
    data,               \* AttinyData: the snapshot read at wake
    mqtt_ctx,           \* the session counter-type context
    json_data,          \* the JSON data document
    mode,               \* wake mode reported by the peripheral
    config_loaded,
    skip_transmission,
    mqtt_connected,
    pc,                 \* position in loop()
    attempts,           \* remaining attempts of the send loop
    result,             \* result of the last post_data
    response_body,      \* body left by the last post_data
    pushes,             \* push messages delivered in this cycle
    trace,              \* events of the current cycle, in order
    startFlag,          \* the persisted guard flag when the cycle began
    exit,               \* how the previous cycle ended
    lastCalls,          \* setCountersType calls of the last step
    lastDoc,            \* the document handled by the last step
    vcheck,             \* input and result of a validator run
    startWakeups,       \* wakeups_without_send as loaded when the cycle began
    mcheck              \* input and result of a merge run

vars == <<eeprom, attiny, sett, data, mqtt_ctx, json_data, mode,
          config_loaded, skip_transmission, mqtt_connected, pc, attempts,
          result, response_body, pushes, trace, startFlag, exit, lastCalls,
          lastDoc, vcheck, startWakeups, mcheck>>

NoLastDoc == [src |-> "none", parsed |-> FALSE, merged |-> FALSE,
              haskey |-> FALSE, dockey |-> "", key |-> "",
              same |-> TRUE, ncalls |-> 0, ret |-> FALSE]

\* what a step that handled a document leaves in lastDoc
DocRecord(src, r, before, attinyBefore) ==
    [src |-> src, parsed |-> r.parsed, merged |-> r.merged,
     haskey |-> Has(r.doc, "key"),
     dockey |-> IF Has(r.doc, "key") THEN r.doc["key"] ELSE "",
     key |-> r.key,
     same |-> r.sett = before /\ r.attiny = attinyBefore,
     ncalls |-> Len(r.calls), ret |-> r.ret]

NoValidation == [done |-> FALSE, resp |-> [begin |-> TRUE, code |-> 0,
                 size |-> 0, body |-> EmptyBody],
                 res |-> [ok |-> FALSE, out |-> EmptyBody, read |-> FALSE,
                          why |-> ""]]

NoMergeRun == [done |-> FALSE]

InitialAttiny == [counter_type0 |-> NAMUR, counter_type1 |-> NAMUR,
                  impulses0 |-> 0, impulses1 |-> 0]

Init ==
    /\ eeprom = [valid |-> FALSE, sett |-> DefaultSettings]
    /\ attiny = InitialAttiny
    /\ sett = DefaultSettings
    /\ data = InitialAttiny
    /\ mqtt_ctx = MqttCounterContext
    /\ json_data = EmptyJson
    /\ mode = TRANSMIT_MODE
    /\ config_loaded = FALSE
    /\ skip_transmission = FALSE
    /\ mqtt_connected = FALSE
    /\ pc = "boot"
    /\ attempts = 0
    /\ result = FALSE
    /\ response_body = EmptyBody
    /\ pushes = 0
    /\ trace = <<>>
    /\ startFlag = 0
    /\ exit = "power_on"
    /\ lastCalls = <<>>
    /\ lastDoc = NoLastDoc
    /\ vcheck = NoValidation
    /\ startWakeups = 0
    /\ mcheck = NoMergeRun

\* a step that handles no document and calls no setCountersType
NoGhost == lastCalls' = <<>> /\ lastDoc' = NoLastDoc

\* ESP.restart(): the next thing that runs is setup() and loop() again
Restarted == pc' = "boot" /\ exit' = "restart"

(***************************************************************************)
(* The wake cycle: loop() of main.cpp                                      *)
(***************************************************************************)
\* main.cpp 57-79: the peripheral is asked for the wake mode and its data,
\* the settings are loaded.
Wake ==
    /\ pc = "boot"
    /\ \E m \in Modes, i2c \in BOOLEAN :
        LET loaded == eeprom.valid
            s1 == IF loaded THEN eeprom.sett ELSE DefaultSettings
        IN  /\ startFlag' = IF eeprom.valid
                            THEN eeprom.sett.config_restart_pending ELSE 0
            /\ startWakeups' = s1.wakeups_without_send
            /\ IF i2c
               THEN /\ mode' = m
                    /\ data' = attiny
                    /\ config_loaded' = loaded
                    /\ sett' = s1
                    /\ trace' = <<"wake", FlagRead(s1)>>
                    /\ pc' = IF m = SETUP_MODE THEN "setup" ELSE "woc"
               ELSE /\ mode' = TRANSMIT_MODE
                    /\ data' = InitialAttiny
                    /\ config_loaded' = FALSE
                    /\ sett' = DefaultSettings
                    /\ trace' = <<"wake">>
                    /\ pc' = "sleep"
    /\ mqtt_ctx' = MqttCounterContext
    /\ json_data' = EmptyJson
    /\ skip_transmission' = FALSE
    /\ mqtt_connected' = FALSE
    /\ attempts' = 0
    /\ result' = FALSE
    /\ response_body' = EmptyBody
    /\ pushes' = 0
    /\ exit' = "running"
    /\ NoGhost
    /\ UNCHANGED <<eeprom, attiny, vcheck, mcheck>>

\* main.cpp 81-106: setup mode
SetupMode ==
    /\ pc = "setup"
    /\ \E cfg \in PortalConfigs :
        LET r == SetupRestart(Override(sett, cfg))
        IN  /\ sett' = r.sett
            /\ eeprom' = r.image
            /\ trace' = trace \o r.ev
    /\ Restarted
    /\ NoGhost
    /\ UNCHANGED <<attiny, data, mqtt_ctx, json_data, mode, config_loaded,
                   skip_transmission, mqtt_connected, attempts, result,
                   response_body, pushes, startFlag, vcheck, startWakeups, mcheck>>

\* main.cpp 120-123
\* variant: the heartbeat is due one wake later
HeartbeatThreshold_OneMore(s) ==
    LET m == (24 * 60) \div s.wakeup_per_min
    IN  IF m = 0 THEN 2 ELSE m + 1

HeartbeatThreshold(s) ==
    LET m == (24 * 60) \div s.wakeup_per_min
    IN  IF m = 0 THEN 1 ELSE m

\* variant: a skipped wake is not counted
CountSkippedWake_Same(n) == n

\* main.cpp 140-142: the counter of wakes without transmission saturates
CountSkippedWake(n) == IF n < UINT16_MAX THEN n + 1 ELSE n

\* variant: the wake mode is not consulted
WocDecision_AnyMode(loaded, s, d, m) ==
    IF loaded /\ s.wake_on_consumption_only # 0
    THEN LET has_consumption == Delta0(s, d) > 0 \/ Delta1(s, d) > 0
             heartbeat_needed ==
                 s.wakeups_without_send >= HeartbeatThreshold(s)
         IN  IF ~has_consumption /\ ~heartbeat_needed
             THEN [skip |-> TRUE,
                   sett |-> [s EXCEPT
                       !.impulses0_previous = d.impulses0,
                       !.impulses1_previous = d.impulses1,
                       !.wakeups_without_send = CountSkippedWake(@)]]
             ELSE [skip |-> FALSE, sett |-> s]
    ELSE [skip |-> FALSE, sett |-> s]

\* main.cpp 113-149: the decision of the wake-on-consumption check,
\* [skip |-> skip_transmission, sett |-> the settings after the check]
WocDecision(loaded, s, d, m) ==
    IF loaded /\ s.wake_on_consumption_only # 0 /\ m = TRANSMIT_MODE
    THEN LET has_consumption == Delta0(s, d) > 0 \/ Delta1(s, d) > 0
             heartbeat_needed ==
                 s.wakeups_without_send >= HeartbeatThreshold(s)
         IN  IF ~has_consumption /\ ~heartbeat_needed
             THEN [skip |-> TRUE,
                   sett |-> [s EXCEPT
                       !.impulses0_previous = d.impulses0,
                       !.impulses1_previous = d.impulses1,
                       !.wakeups_without_send = CountSkippedWake(@)]]
             ELSE [skip |-> FALSE, sett |-> s]
    ELSE [skip |-> FALSE, sett |-> s]

\* main.cpp 108-151: wake on consumption only
WocCheck ==
    /\ pc = "woc"
    /\ LET r == WocDecision(config_loaded, sett, data, mode)
       IN  /\ skip_transmission' = r.skip
           /\ sett' = r.sett
    /\ pc' = IF config_loaded THEN "wifi" ELSE "sleep"
    /\ NoGhost
    /\ UNCHANGED <<eeprom, attiny, data, mqtt_ctx, json_data, mode,
                   config_loaded, mqtt_connected, attempts, result,
                   response_body, pushes, trace, startFlag, exit, vcheck,
                   startWakeups, mcheck>>

\* main.cpp 153: if (!skip_transmission && wifi_connect(sett))
WifiConnect ==
    /\ pc = "wifi"
    /\ IF skip_transmission
       THEN pc' = "clear"
       ELSE \E ok \in BOOLEAN : pc' = IF ok THEN "mqtt_sub" ELSE "clear"
    /\ NoGhost
    /\ UNCHANGED <<eeprom, attiny, sett, data, mqtt_ctx, json_data, mode,
                   config_loaded, skip_transmission, mqtt_connected,
                   attempts, result, response_body, pushes, trace,
                   startFlag, exit, vcheck, startWakeups, mcheck>>

\* main.cpp 161-164: connect_and_subscribe_mqtt.  Its body is not among the
\* sources; a new MQTT session starts with reset_mqtt_counter_context
\* (subscribe.cpp 33-39), which has no other caller.
ConnectAndSubscribeMqtt ==
    /\ pc = "mqtt_sub"
    /\ IF is_mqtt(sett)
       THEN \E c \in BOOLEAN : mqtt_connected' = c
       ELSE mqtt_connected' = FALSE
    /\ mqtt_ctx' = reset_mqtt_counter_context
    /\ pc' = "mqtt_loop"
    /\ NoGhost
    /\ UNCHANGED <<eeprom, attiny, sett, data, json_data, mode,
                   config_loaded, skip_transmission, attempts, result,
                   response_body, pushes, trace, startFlag, exit, vcheck, startWakeups, mcheck>>

\* subscribe.cpp 241-261: mqtt_callback, run for a message that arrives
\* while the client is served (after the subscription and in send_mqtt)
MqttCallback ==
    /\ pc \in {"mqtt_loop", "send_mqtt"}
    /\ mqtt_connected
    /\ is_mqtt(sett)
    /\ pushes < MaxPush
    /\ \E msg \in PushMessages, accept \in BOOLEAN :
        LET r == update_settings(msg.topic, msg.payload, sett, data,
                                 json_data, mqtt_ctx, attiny, accept)
        IN  /\ sett' = r.sett
            /\ json_data' = r.json
            /\ mqtt_ctx' = r.ctx
            /\ attiny' = r.attiny
            /\ lastCalls' = r.calls
            /\ trace' = IF r.updated THEN Append(trace, "upd") ELSE trace
    /\ pushes' = pushes + 1
    /\ lastDoc' = NoLastDoc
    /\ UNCHANGED <<eeprom, data, mode, config_loaded, skip_transmission,
                   mqtt_connected, pc, attempts, result, response_body,
                   startFlag, exit, vcheck, startWakeups, mcheck>>

\* main.cpp 166-219: time synchronisation and get_json_data
GetJsonData ==
    /\ pc = "mqtt_loop"
    /\ json_data' = get_json_data(sett, data)
    /\ pc' = "send_waterius"
    /\ NoGhost
    /\ UNCHANGED <<eeprom, attiny, sett, data, mqtt_ctx, mode,
                   config_loaded, skip_transmission, mqtt_connected,
                   attempts, result, response_body, pushes, trace,
                   startFlag, exit, vcheck, startWakeups, mcheck>>

\* positions of the two HTTP senders, w \in {"waterius", "http"}
PcSend(w) == IF w = "waterius" THEN "send_waterius" ELSE "send_http"

PcPost(w) == IF w = "waterius" THEN "post_waterius" ELSE "post_http"

PcDone(w) == IF w = "waterius" THEN "done_waterius" ELSE "done_http"

\* variant: the processor hangs when a sender returns
PcAfter_Hang(w) == "hang"

PcAfter(w) == IF w = "waterius" THEN "send_http" ELSE "send_mqtt"

\* sender_waterius.h 29 / sender_http.h 27: is this sender configured
SenderEnabled(w, s) ==
    IF w = "waterius" THEN is_waterius_site(s)
    ELSE s.http_on # 0 /\ s.http_url # ""

\* send_waterius / send_http up to the start of the send loop
SendStart(w) ==
    /\ pc = PcSend(w)
    /\ IF SenderEnabled(w, sett)
       THEN /\ pc' = PcPost(w)
            /\ attempts' = HTTP_SEND_ATTEMPTS
       ELSE /\ pc' = PcAfter(w)
            /\ attempts' = 0
    /\ result' = FALSE
    /\ response_body' = EmptyBody
    /\ NoGhost
    /\ UNCHANGED <<eeprom, attiny, sett, data, mqtt_ctx, json_data, mode,
                   config_loaded, skip_transmission, mqtt_connected, pushes,
                   trace, startFlag, exit, vcheck, startWakeups, mcheck>>

\* one round of do { result = post_data(...) } while (!result && --attempts)
Post(w) ==
    /\ pc = PcPost(w)
    /\ \E out \in CycleOutcomes :
        LET r == post_data(out, response_body)
        IN  /\ result' = r.result
            /\ response_body' = r.body
            /\ attempts' = IF r.result THEN attempts ELSE attempts - 1
            /\ pc' = IF SendLoopContinue(r.result, attempts)
                     THEN PcPost(w) ELSE PcDone(w)
            /\ vcheck' = IF out.begin
                         THEN [done |-> TRUE, resp |-> out,
                               res |-> validate_and_get_response(out)]
                         ELSE NoValidation
    /\ NoGhost
    /\ UNCHANGED <<eeprom, attiny, sett, data, mqtt_ctx, json_data, mode,
                   config_loaded, skip_transmission, mqtt_connected, pushes,
                   trace, startFlag, exit, startWakeups, mcheck>>

\* send_waterius / send_http after the loop: the response may carry a
\* configuration document
SendFinish(w) ==
    /\ pc = PcDone(w)
    /\ IF result /\ EmbeddedConfigAllowed(sett)
       THEN \E accept \in BOOLEAN :
            LET r == apply_config_from_response(response_body,
                        sett.waterius_key, sett, data, attiny, mqtt_ctx,
                        accept)
                ev == <<"sent", FlagRead(sett), "embed">> \o r.ev
            IN  /\ attiny' = r.attiny
                /\ mqtt_ctx' = r.ctx
                /\ lastCalls' = r.calls
                /\ lastDoc' = DocRecord("embedded", r, sett, attiny)
                /\ IF r.ret
                   THEN LET x == ConfigRestart(r.sett)
                        IN  /\ sett' = x.sett
                            /\ eeprom' = x.image
                            /\ trace' = trace \o ev \o <<"chg">> \o x.ev
                            /\ Restarted
                   ELSE /\ sett' = r.sett
                        /\ trace' = trace \o ev
                        /\ pc' = PcAfter(w)
                        /\ UNCHANGED <<eeprom, exit>>
       ELSE /\ trace' = IF result
                        THEN trace \o <<"sent", FlagRead(sett)>>
                        ELSE trace
            /\ pc' = PcAfter(w)
            /\ NoGhost
            /\ UNCHANGED <<eeprom, attiny, sett, mqtt_ctx, exit>>
    /\ vcheck' = NoValidation
    /\ UNCHANGED <<data, json_data, mode, config_loaded, skip_transmission,
                   mqtt_connected, attempts, result, response_body, pushes,
                   startFlag, startWakeups, mcheck>>

\* main.cpp 236-246: send_mqtt, which succeeds or fails when MQTT is
\* configured and is not called otherwise
SendMqtt ==
    /\ pc = "send_mqtt"
    /\ IF is_mqtt(sett)
       THEN \E ok \in BOOLEAN :
                trace' = IF ok THEN Append(trace, "sent") ELSE trace
       ELSE trace' = trace
    /\ pc' = "cfg"
    /\ NoGhost
    /\ UNCHANGED <<eeprom, attiny, sett, data, mqtt_ctx, json_data, mode,
                   config_loaded, skip_transmission, mqtt_connected,
                   attempts, result, response_body, pushes,
                   startFlag, exit, vcheck, startWakeups, mcheck>>

\* main.cpp 260-268: the server the pull fetch addresses, if any
PullTarget(s) ==
    IF is_waterius_site(s) THEN "waterius"
    ELSE IF s.http_on # 0 /\ s.http_url # "" THEN "http"
    ELSE "none"

\* main.cpp 253-285: pull fetch of /cfg on a manual wake
CfgFetch ==
    /\ pc = "cfg"
    /\ IF PullAllowed(mode, sett) /\ PullTarget(sett) # "none"
       THEN \E out \in CycleOutcomes, accept \in BOOLEAN :
            LET r == fetch_and_apply_remote_config(sett.waterius_key, sett,
                        data, attiny, mqtt_ctx, out, accept)
                ev == <<FlagRead(sett), "pull">> \o r.ev
            IN  /\ attiny' = r.attiny
                /\ mqtt_ctx' = r.ctx
                /\ lastCalls' = r.calls
                /\ lastDoc' = DocRecord("pull", r, sett, attiny)
                /\ IF r.ret
                   THEN LET x == ConfigRestart(r.sett)
                        IN  /\ sett' = x.sett
                            /\ eeprom' = x.image
                            /\ trace' = trace \o ev \o <<"chg">> \o x.ev
                            /\ Restarted
                   ELSE /\ sett' = r.sett
                        /\ trace' = trace \o ev
                        /\ pc' = "finish"
                        /\ UNCHANGED <<eeprom, exit>>
       ELSE /\ trace' = Append(trace, FlagRead(sett))
            /\ pc' = "finish"
            /\ NoGhost
            /\ UNCHANGED <<eeprom, attiny, sett, mqtt_ctx, exit>>
    /\ UNCHANGED <<data, json_data, mode, config_loaded, skip_transmission,
                   mqtt_connected, attempts, result, response_body, pushes,
                   startFlag, vcheck, startWakeups, mcheck>>

\* main.cpp 290-297: update_config, then the heartbeat counter is reset
AfterTransmission(s, d) ==
    LET s1 == update_config(s, d)
    IN  IF s1.wake_on_consumption_only # 0 /\ s1.wakeups_without_send > 0
        THEN [s1 EXCEPT !.wakeups_without_send = 0]
        ELSE s1

\* main.cpp 288-302: wifi_shutdown, update_config, heartbeat counter reset
FinishTransmit ==
    /\ pc = "finish"
    /\ sett' = AfterTransmission(sett, data)
    /\ trace' = Append(trace, "shutdown")
    /\ pc' = "clear"
    /\ NoGhost
    /\ UNCHANGED <<eeprom, attiny, data, mqtt_ctx, json_data, mode,
                   config_loaded, skip_transmission, mqtt_connected,
                   attempts, result, response_body, pushes, startFlag, exit,
                   vcheck, startWakeups, mcheck>>

\* main.cpp 304-312: clear the guard flag, store_config
ClearAndStore ==
    /\ pc = "clear"
    /\ LET r == ClearGuard(sett)
       IN  /\ sett' = r.sett
           /\ eeprom' = store_config(r.sett)
           /\ trace' = trace \o r.ev \o <<StoreEvent(r.sett)>>
    /\ pc' = "sleep"
    /\ NoGhost
    /\ UNCHANGED <<attiny, data, mqtt_ctx, json_data, mode, config_loaded,
                   skip_transmission, mqtt_connected, attempts, result,
                   response_body, pushes, startFlag, exit, vcheck, startWakeups, mcheck>>

\* main.cpp 316-335: setSleep and deep sleep until the next wake
GoToSleep ==
    /\ pc = "sleep"
    /\ trace' = Append(trace, "sleep")
    /\ pc' = "boot"
    /\ exit' = "sleep"
    /\ NoGhost
    /\ UNCHANGED <<eeprom, attiny, sett, data, mqtt_ctx, json_data, mode,
                   config_loaded, skip_transmission, mqtt_connected,
                   attempts, result, response_body, pushes, startFlag,
                   vcheck, startWakeups, mcheck>>

SendWateriusStart == SendStart("waterius")

PostWaterius == Post("waterius")

SendWateriusFinish == SendFinish("waterius")

SendHttpStart == SendStart("http")

PostHttp == Post("http")

SendHttpFinish == SendFinish("http")

Next ==
    \/ Wake
    \/ SetupMode
    \/ WocCheck
    \/ WifiConnect
    \/ ConnectAndSubscribeMqtt
    \/ MqttCallback
    \/ GetJsonData
    \/ SendWateriusStart
    \/ PostWaterius
    \/ SendWateriusFinish
    \/ SendHttpStart
    \/ PostHttp
    \/ SendHttpFinish
    \/ SendMqtt
    \/ CfgFetch
    \/ FinishTransmit
    \/ ClearAndStore
    \/ GoToSleep

Spec == Init /\ [][Next]_vars

\* The cycles from power-on up to the first deep sleep: the first wake, and
\* every wake that follows a restart.
WakeUntilSleep == exit # "sleep" /\ Wake

NextLive ==
    \/ WakeUntilSleep
    \/ SetupMode
    \/ WocCheck
    \/ WifiConnect
    \/ ConnectAndSubscribeMqtt
    \/ MqttCallback
    \/ GetJsonData
    \/ SendWateriusStart
    \/ PostWaterius
    \/ SendWateriusFinish
    \/ SendHttpStart
    \/ PostHttp
    \/ SendHttpFinish
    \/ SendMqtt
    \/ CfgFetch
    \/ FinishTransmit
    \/ ClearAndStore
    \/ GoToSleep

\* loop() is one sequential function: once entered every statement is
\* followed by the next one, and each blocking call in it (Wi-Fi connect,
\* an HTTP exchange, the MQTT wait) returns after its timeout
SpecLive == Init /\ [][NextLive]_vars /\ WF_vars(NextLive)

TypeOK ==
    /\ pc \in {"boot", "setup", "woc", "wifi", "mqtt_sub", "mqtt_loop",
               "send_waterius", "post_waterius", "done_waterius",
               "send_http", "post_http", "done_http", "send_mqtt", "cfg",
               "finish", "clear", "sleep"}
    /\ sett.config_restart_pending \in {0, 1}
    /\ attempts \in 0..HTTP_SEND_ATTEMPTS
    /\ pushes \in 0..MaxPush

(***************************************************************************)
(* The validator on its own: every response of ValidatorInputs is checked  *)
(***************************************************************************)
ValidatorCodes == {200, 201, 204, 301, 404, 500, 0, -1, -11}

ValidatorSizes == {-1, 0, 1, 9, 10, 40, REMOTE_CONFIG_MAX_SIZE - 1,
                   REMOTE_CONFIG_MAX_SIZE, REMOTE_CONFIG_MAX_SIZE + 1,
                   2 * REMOTE_CONFIG_MAX_SIZE}

ValidatorInputs ==
    { [begin |-> TRUE, code |-> c, size |-> n,
       body |-> [len |-> IF n > 0 THEN n ELSE 40, first |-> f,
                 parse_ok |-> f = "{",
                 doc |-> IF f = "{" THEN [key |-> "k1"] ELSE NoDoc]] :
      c \in ValidatorCodes, n \in ValidatorSizes, f \in {"{", "<"} }

Validate ==
    /\ ~vcheck.done
    /\ \E resp \in ValidatorInputs :
        vcheck' = [done |-> TRUE, resp |-> resp,
                   res |-> validate_and_get_response(resp)]
    /\ UNCHANGED <<eeprom, attiny, sett, data, mqtt_ctx, json_data, mode,
                   config_loaded, skip_transmission, mqtt_connected, pc,
                   attempts, result, response_body, pushes, trace,
                   startFlag, exit, lastCalls, lastDoc,
                   startWakeups, mcheck>>

NextResponse ==
    /\ vcheck.done
    /\ vcheck' = NoValidation
    /\ UNCHANGED <<eeprom, attiny, sett, data, mqtt_ctx, json_data, mode,
                   config_loaded, skip_transmission, mqtt_connected, pc,
                   attempts, result, response_body, pushes, trace,
                   startFlag, exit, lastCalls, lastDoc,
                   startWakeups, mcheck>>

NextValidator == Validate \/ NextResponse

SpecValidator == Init /\ [][NextValidator]_vars

(***************************************************************************)
(* The merge on its own: an authenticated document of MergeDocs is merged  *)
(* into one of MergeSettings, the peripheral accepting the pair or not     *)
(***************************************************************************)
Chars15 == "123456789012345"

Chars16 == "1234567890123456"

Chars31 == "1234567890123456789012345678901"

Chars32 == "12345678901234567890123456789012"

\* values a server can send for a field; readings in thousandths
MergeValues ==
    [ channel0 |-> {-1, 0, 12345, 999999 * 1000, 999999 * 1000 + 1,
                    1000000 * 1000},
      channel1 |-> {5000},
      factor0 |-> {0, 1, 10000, 10001, 65536 + 20},
      factor1 |-> {30},
      wakeup_per_min |-> {0, 1, 10, 1440, 1441},
      impulses0 |-> {7},
      ctype0 |-> {NAMUR, ELECTRONIC, NONE, 1},
      ctype1 |-> {ELECTRONIC, 3, 256},
      serial0 |-> {"", Chars15, Chars16},
      ssid |-> {Chars31, Chars32},
      mqtt_on |-> BOOLEAN,
      mqtt_host |-> {"m2"},
      mqtt_port |-> {0, 1, 65535, 65536},
      mqtt_login |-> {Chars31, Chars32},
      http_on |-> BOOLEAN,
      http_url |-> {"http://h2"},
      dhcp_off |-> BOOLEAN,
      static_ip |-> {<<10, 0, 0, 2>>, <<10, 0, 0, 256>>},
      gateway |-> {<<10, 0, 0, 1>>},
      mdns_on |-> {FALSE},
      comment |-> {"x"},
      version |-> {2} ]

MergeKey == "k1"

KeyOnly == [key |-> MergeKey]

OneField == UNION { { (k :> v) @@ KeyOnly : v \in MergeValues[k] } :
                    k \in DOMAIN MergeValues }

TwoFields == UNION { { (k :> v) @@ d : v \in MergeValues[k] } :
                     k \in DOMAIN MergeValues, d \in OneField }

ThreeFields ==
    { [key |-> MergeKey, ctype0 |-> NAMUR, ctype1 |-> ELECTRONIC,
       factor1 |-> 30],
      [key |-> MergeKey, ctype0 |-> NAMUR, ctype1 |-> ELECTRONIC,
       factor1 |-> 0],
      [key |-> MergeKey, mqtt_on |-> TRUE, mqtt_host |-> "m2",
       mqtt_port |-> 65536],
      [key |-> MergeKey, comment |-> "x", version |-> 2, extra |-> TRUE] }

MergeDocs == {KeyOnly} \cup OneField \cup TwoFields \cup ThreeFields

\* settings a merge can meet: every gate closed, every gate open
MergeSettings ==
    { [DefaultSettings EXCEPT !.waterius_key = MergeKey],
      [DefaultSettings EXCEPT !.waterius_key = MergeKey,
                              !.mqtt_on = 1, !.mqtt_host = "m",
                              !.http_on = 1, !.http_url = "http://h",
                              !.dhcp_off = 1, !.mdns_on = 1] }

\* snapshots a merge can meet: the types of a new device, and a type that
\* a push on .../ctype0/set has written to the peripheral in an earlier cycle
MergeSnapshots ==
    { InitialAttiny, [InitialAttiny EXCEPT !.counter_type0 = 3] }

Merge ==
    /\ ~mcheck.done
    /\ \E doc \in MergeDocs, s \in MergeSettings, d \in MergeSnapshots,
          accept \in BOOLEAN :
        mcheck' = [done |-> TRUE, doc |-> doc, before |-> s, data |-> d,
                   accept |-> accept,
                   res |-> AuthAndMerge(doc, s.waterius_key, s, d, d,
                              MqttCounterContext, accept, <<>>)]
    /\ UNCHANGED <<eeprom, attiny, sett, data, mqtt_ctx, json_data, mode,
                   config_loaded, skip_transmission, mqtt_connected, pc,
                   attempts, result, response_body, pushes, trace,
                   startFlag, exit, lastCalls, lastDoc, vcheck,
                   startWakeups>>

NextDocument ==
    /\ mcheck.done
    /\ mcheck' = NoMergeRun
    /\ UNCHANGED <<eeprom, attiny, sett, data, mqtt_ctx, json_data, mode,
                   config_loaded, skip_transmission, mqtt_connected, pc,
                   attempts, result, response_body, pushes, trace,
                   startFlag, exit, lastCalls, lastDoc, vcheck,
                   startWakeups>>

NextMerge == Merge \/ NextDocument

SpecMerge == Init /\ [][NextMerge]_vars

(***************************************************************************)
(* The heartbeat of wake on consumption only: the device has been set up   *)
(* with one of WocPeriods, the peripheral counts impulses while the        *)
(* processor sleeps, and the servers answer without a configuration        *)
(* document, so that a transmission is one step.                           *)
(***************************************************************************)
WocPeriods == {7, 10, 1440, 2000}

InitWoc ==
    /\ \E cfg \in PortalConfigs, p \in WocPeriods :
        eeprom = [valid |-> TRUE,
                  sett |-> [Override(DefaultSettings, cfg) EXCEPT
                               !.wakeup_per_min = p,
                               !.period_min_tuned = p]]
    /\ attiny = InitialAttiny
    /\ sett = DefaultSettings
    /\ data = InitialAttiny
    /\ mqtt_ctx = MqttCounterContext
    /\ json_data = EmptyJson
    /\ mode = TRANSMIT_MODE
    /\ config_loaded = FALSE
    /\ skip_transmission = FALSE
    /\ mqtt_connected = FALSE
    /\ pc = "boot"
    /\ attempts = 0
    /\ result = FALSE
    /\ response_body = EmptyBody
    /\ pushes = 0
    /\ trace = <<>>
    /\ startFlag = 0
    /\ exit = "restart"
    /\ lastCalls = <<>>
    /\ lastDoc = NoLastDoc
    /\ vcheck = NoValidation
    /\ startWakeups = 0
    /\ mcheck = NoMergeRun

\* the peripheral counts an impulse of one channel while the processor is
\* off
Pulse ==
    /\ pc = "boot"
    /\ attiny.impulses0 + attiny.impulses1 < MaxImpulses
    /\ \/ attiny' = [attiny EXCEPT !.impulses0 = @ + 1]
       \/ attiny' = [attiny EXCEPT !.impulses1 = @ + 1]
    /\ UNCHANGED <<eeprom, sett, data, mqtt_ctx, json_data, mode,
                   config_loaded, skip_transmission, mqtt_connected, pc,
                   attempts, result, response_body, pushes, trace,
                   startFlag, exit, lastCalls, lastDoc, vcheck,
                   startWakeups, mcheck>>

\* main.cpp 155-285 when no response carries a configuration document:
\* the data is sent to the configured servers, "sent" records that at least
\* one of send_waterius, send_http, send_mqtt succeeded
Transmission ==
    /\ pc = "mqtt_sub"
    /\ \E ok \in BOOLEAN :
        /\ ok => \/ SenderEnabled("waterius", sett)
                 \/ SenderEnabled("http", sett)
                 \/ is_mqtt(sett)
        /\ trace' = IF ok THEN Append(trace, "sent") ELSE trace
    /\ pc' = "finish"
    /\ NoGhost
    /\ UNCHANGED <<eeprom, attiny, sett, data, mqtt_ctx, json_data, mode,
                   config_loaded, skip_transmission, mqtt_connected,
                   attempts, result, response_body, pushes, startFlag, exit,
                   vcheck, startWakeups, mcheck>>

NextWoc ==
    \/ Pulse
    \/ Wake
    \/ SetupMode
    \/ WocCheck
    \/ WifiConnect
    \/ Transmission
    \/ FinishTransmit
    \/ ClearAndStore
    \/ GoToSleep

SpecWoc == InitWoc /\ [][NextWoc]_vars

(***************************************************************************)
(* Properties                                                              *)
(***************************************************************************)
Events == {trace[i] : i \in 1..Len(trace)}

CallSet == {lastCalls[i] : i \in 1..Len(lastCalls)}

\* the events from position i on
TraceFrom(i) == SubSeq(trace, i, Len(trace))

\* C1: in a cycle that starts with the persisted guard flag set no pull
\* fetch is attempted, no response-embedded document is handed to the merge
\* and the cycle does not end in a config-triggered restart.
C1_NoConfigSyncWhileGuardSet ==
    startFlag # 0 =>
        Events \cap {"pull", "fetch", "embed", "merge", "chg", "set"} = {}

\* a guarded manual cycle that got past the pull step after a successful
\* send whose response carried an authentic document
C1_Witness ==
    /\ startFlag # 0
    /\ mode = MANUAL_TRANSMIT_MODE
    /\ pc = "finish"
    /\ result
    /\ response_body.doc = [key |-> "k1", factor0 |-> 20,
                            wake_on_consumption_only |-> 1]

\* C2: a cycle that begins with the guard flag set clears it before it
\* persists its settings, so every image that cycle persists has the flag
\* clear.
C2_GuardClearedBeforeStore ==
    startFlag # 0 =>
        /\ "store1" \notin Events
        /\ \A i \in 1..Len(trace) :
              trace[i] \in {"store0", "store1"} =>
                  \E j \in 1..(i - 1) : trace[j] = "clear"

\* C3: the flag is set only where every earlier read of it in the cycle
\* returned false, and store_config, network shutdown and restart are all
\* that follows.
C3_SetOnlyBeforeRestart ==
    /\ \A i \in 1..Len(trace) :
          trace[i] = "set" =>
              /\ \A j \in 1..(i - 1) : trace[j] \notin {"rdT", "set"}
              /\ TraceFrom(i) = <<"set", "store1", "shutdown", "restart">>
    /\ (sett.config_restart_pending # 0 /\ startFlag = 0) =>
          /\ pc = "boot"
          /\ exit = "restart"
          /\ "set" \in Events

\* the flag was set in a cycle that began with it clear
C3_Witness ==
    /\ startFlag = 0
    /\ sett.config_restart_pending = 1
    /\ "set" \in Events
    /\ "rdF" \in Events

\* C4 as stated: whenever an update from any source (push update, pulled
\* document, response-embedded document) reports changed, the same cycle
\* persists Settings with the flag set and restarts.
C4_AnyChangeRestarts ==
    \A i \in 1..Len(trace) :
        trace[i] \in {"chg", "upd"} =>
            /\ TraceFrom(i + 1) = <<"set", "store1", "shutdown", "restart">>
            /\ pc = "boot"
            /\ exit = "restart"

\* C4 amended: a pulled or response-embedded document that reports changed
\* makes the same step persist Settings with the flag set and restart; a
\* push update that reports updated does not restart, the cycle goes on.
C4_DocumentChangeRestarts ==
    /\ \A i \in 1..Len(trace) :
          trace[i] = "chg" =>
              TraceFrom(i + 1) = <<"set", "store1", "shutdown", "restart">>
    /\ lastDoc.ret =>
          /\ "chg" \in Events
          /\ pc = "boot"
          /\ exit = "restart"
          /\ eeprom = store_config(sett)
          /\ eeprom.sett.config_restart_pending = 1
    /\ ("upd" \in Events /\ "chg" \notin Events) =>
          /\ Events \cap {"set", "restart"} = {}
          /\ exit \in {"running", "sleep"}

\* a push update was accepted and the cycle went on to the pull fetch,
\* whose document reported changed
C4_Witness ==
    /\ "upd" \in Events
    /\ lastDoc.ret
    /\ lastDoc.src = "pull"

\* C5: every restart is preceded by store_config of the Settings in memory
\* and then the release of the network, with no change of Settings between
\* the store and the restart.
C5_StoreShutdownRestart ==
    /\ \A i \in 1..Len(trace) :
          trace[i] = "restart" =>
              /\ i = Len(trace)
              /\ i >= 3
              /\ trace[i - 1] = "shutdown"
              /\ trace[i - 2] \in {"store0", "store1"}
              /\ eeprom = store_config(sett)
    /\ exit = "restart" => (trace # <<>> /\ Last(trace) = "restart")

\* the restart that ends setup mode
C5_Witness ==
    /\ exit = "restart"
    /\ "set" \notin Events
    /\ Last(trace) = "restart"

\* C6: the merge is invoked on a document exactly when the document has a
\* key field equal to the device key; otherwise nothing is applied.
C6_MergeOnlyWhenAuthenticated ==
    lastDoc.src # "none" =>
        /\ lastDoc.merged <=>
              (lastDoc.parsed /\ lastDoc.haskey
               /\ lastDoc.dockey = lastDoc.key)
        /\ ~lastDoc.merged =>
              (lastDoc.same /\ lastDoc.ncalls = 0 /\ ~lastDoc.ret)

\* a pulled document with a key that differs from the device key
C6_Witness ==
    /\ lastDoc.src = "pull"
    /\ lastDoc.parsed
    /\ lastDoc.haskey
    /\ lastDoc.dockey # lastDoc.key
    /\ ~lastDoc.merged

\* C7: the validator accepts, and reads the body, exactly when the status
\* is 200 and the declared size is positive and at most
\* REMOTE_CONFIG_MAX_SIZE, checked in that order; otherwise the body is not
\* read and the output is empty.
C7_ValidatorAcceptsIff ==
    vcheck.done =>
        LET r == vcheck.resp
            v == vcheck.res
            good == r.code = 200 /\ r.size > 0
                    /\ r.size <= REMOTE_CONFIG_MAX_SIZE
        IN  /\ v.ok <=> good
            /\ v.read <=> good
            /\ good => v.out = r.body
            /\ ~good => v.out = EmptyBody
            /\ r.code # 200 => v.why = "code"
            /\ (r.code = 200 /\ r.size <= 0) => v.why = "nosize"
            /\ (r.code = 200 /\ r.size > REMOTE_CONFIG_MAX_SIZE) =>
                  v.why = "large"

\* a status-200 response without a usable declared size
C7_Witness ==
    /\ vcheck.done
    /\ vcheck.resp.code = 200
    /\ vcheck.resp.size = 0
    /\ ~vcheck.res.read

\* C8: when a merged document names only one of ctype0 / ctype1, the other
\* member of the submitted pair is the session context's current value.
C8_MergeTakesOtherFromContext ==
    \A c \in CallSet :
        c.src = "merge" =>
            /\ (~c.has0 /\ c.ctx0 >= 0) => c.ct0 = c.ctx0
            /\ (~c.has1 /\ c.ctx1 >= 0) => c.ct1 = c.ctx1

\* C9: after the peripheral accepted a pair submitted by the merge, the
\* session context holds that pair.
C9_ContextFollowsMerge ==
    \A c \in CallSet :
        (c.src = "merge" /\ c.ok /\ c.ctx0 >= 0 /\ c.ctx1 >= 0) =>
            (mqtt_ctx.ctype0 = c.ct0 /\ mqtt_ctx.ctype1 = c.ct1)

\* C10: a ctype push submits (new value, context value of the other
\* counter), the context being initialised from the snapshot only for
\* members not yet set; the pushed member changes only on acceptance; the
\* peripheral then holds every value accepted in the session.
C10_PushUsesContext ==
    \A c \in CallSet :
        /\ c.src = "push0" =>
              /\ c.ct0 = Trunc(c.new, 8)
              /\ c.ct1 = c.ctx1
              /\ c.ctx0 = (IF c.pre0 < 0 THEN data.counter_type0 ELSE c.pre0)
              /\ c.ctx1 = (IF c.pre1 < 0 THEN data.counter_type1 ELSE c.pre1)
              /\ mqtt_ctx.ctype0 = (IF c.ok THEN Int16(c.new) ELSE c.ctx0)
              /\ mqtt_ctx.ctype1 = c.ctx1
              /\ c.ok => (attiny.counter_type0 = mqtt_ctx.ctype0
                          /\ attiny.counter_type1 = mqtt_ctx.ctype1)
        /\ c.src = "push1" =>
              /\ c.ct1 = Trunc(c.new, 8)
              /\ c.ct0 = c.ctx0
              /\ c.ctx0 = (IF c.pre0 < 0 THEN data.counter_type0 ELSE c.pre0)
              /\ c.ctx1 = (IF c.pre1 < 0 THEN data.counter_type1 ELSE c.pre1)
              /\ mqtt_ctx.ctype1 = (IF c.ok THEN Int16(c.new) ELSE c.ctx1)
              /\ mqtt_ctx.ctype0 = c.ctx0
              /\ c.ok => (attiny.counter_type0 = mqtt_ctx.ctype0
                          /\ attiny.counter_type1 = mqtt_ctx.ctype1)

\* ctype0 then ctype1 pushed and accepted: the peripheral has both
C10_Witness ==
    /\ lastCalls # <<>>
    /\ lastCalls[1].src = "push1"
    /\ lastCalls[1].ok
    /\ lastCalls[1].pre0 = ELECTRONIC
    /\ data.counter_type0 = NAMUR
    /\ data.counter_type1 = NAMUR
    /\ attiny.counter_type0 = ELECTRONIC
    /\ attiny.counter_type1 = ELECTRONIC

(***************************************************************************)
(* Properties of the merge engine (SpecMerge)                              *)
(***************************************************************************)
\* the document without the fields ks
Without(doc, ks) == [k \in (DOMAIN doc) \ ks |-> doc[k]]

\* the merge of another document into the same settings
MergeAgain(doc) ==
    AuthAndMerge(doc, mcheck.before.waterius_key, mcheck.before,
                 mcheck.data, mcheck.data, MqttCounterContext,
                 mcheck.accept, <<>>)

SameOutcome(r1, r2) ==
    /\ r1.sett = r2.sett
    /\ r1.ret = r2.ret
    /\ r1.attiny = r2.attiny
    /\ r1.calls = r2.calls
    /\ r1.stored = r2.stored

\* the value of a member of the pair: the document's, read as uint8_t, or
\* the snapshot's when the document does not name it
ResultingType(doc, k, snapshot) ==
    IF Has(doc, k)
    THEN (IF doc[k] \in 0..255 THEN doc[k] ELSE 0)
    ELSE snapshot

PermittedTypes == {NAMUR, ELECTRONIC, NONE}

\* C11: a document with ctype0 and/or ctype1 causes at most one
\* setCountersType call, which carries both values together; when the
\* peripheral rejects the call the outcome (settings and changed) is the one
\* of the same document without the counter types.
C11_PairIsOneCall ==
    mcheck.done =>
        LET doc == mcheck.doc
            r == mcheck.res
        IN  /\ Len(r.calls) <= 1
            /\ \A i \in 1..Len(r.calls) :
                /\ Has(doc, "ctype0") \/ Has(doc, "ctype1")
                /\ Has(doc, "ctype0") =>
                       r.calls[i].ct0 = ResultingType(doc, "ctype0", 0)
                /\ Has(doc, "ctype1") =>
                       r.calls[i].ct1 = ResultingType(doc, "ctype1", 0)
            /\ (Len(r.calls) = 1 /\ ~mcheck.accept) =>
                /\ r.attiny = mcheck.data
                /\ r.sett = MergeAgain(Without(doc, {"ctype0", "ctype1"})).sett
                /\ r.ret = MergeAgain(Without(doc, {"ctype0", "ctype1"})).ret

\* P6 with the call refused: both types in one call, factor1 still applied
C11_Witness ==
    /\ mcheck.done
    /\ ~mcheck.accept
    /\ Has(mcheck.doc, "ctype0") /\ Has(mcheck.doc, "ctype1")
    /\ Has(mcheck.doc, "factor1")
    /\ Len(mcheck.res.calls) = 1
    /\ mcheck.res.calls[1].ct0 = NAMUR
    /\ mcheck.res.calls[1].ct1 = ELECTRONIC
    /\ mcheck.res.sett.factor1 = 30
    /\ mcheck.before.factor1 # 30
    /\ mcheck.res.attiny = mcheck.data

\* the inclusive ranges, readings in thousandths, and the settings they guard
DeclaredRange ==
    [ channel0 |-> <<0, 999999 * 1000>>, channel1 |-> <<0, 999999 * 1000>>,
      factor0 |-> <<1, 10000>>, factor1 |-> <<1, 10000>>,
      wakeup_per_min |-> <<1, 1440>>, mqtt_port |-> <<1, 65535>> ]

RangedSetting ==
    [ channel0 |-> "channel0_start", channel1 |-> "channel1_start",
      factor0 |-> "factor0", factor1 |-> "factor1",
      wakeup_per_min |-> "wakeup_per_min", mqtt_port |-> "mqtt_port" ]

OutOfRange(doc, k) ==
    /\ Has(doc, k)
    /\ doc[k] < DeclaredRange[k][1] \/ doc[k] > DeclaredRange[k][2]

StorageSize == [serial0 |-> SERIAL_LEN, ssid |-> WIFI_SSID_LEN]

StringSetting == [serial0 |-> "serial0", ssid |-> "wifi_ssid"]

\* C13: a string field is stored, whole, exactly when its length is at most
\* the storage size minus one; a longer string leaves the stored value as it
\* was and the outcome is the one of the document without that field.
C13_LongStringRejected ==
    mcheck.done =>
        \A k \in DOMAIN StorageSize :
            Has(mcheck.doc, k) =>
                IF Len(mcheck.doc[k]) <= StorageSize[k] - 1
                THEN /\ mcheck.res.sett[StringSetting[k]] = mcheck.doc[k]
                     /\ mcheck.res.ret
                ELSE /\ mcheck.res.sett[StringSetting[k]]
                          = mcheck.before[StringSetting[k]]
                     /\ SameOutcome(mcheck.res,
                                    MergeAgain(Without(mcheck.doc, {k})))

\* a serial number of SERIAL_LEN characters, alone in its document
C13_Witness ==
    /\ mcheck.done
    /\ DOMAIN mcheck.doc = {"key", "serial0"}
    /\ Len(mcheck.doc["serial0"]) = SERIAL_LEN
    /\ mcheck.res.sett.serial0 = ""
    /\ ~mcheck.res.ret

\* gated fields whose values in MergeValues are valid: gate and setting
GateOf ==
    [ mqtt_host |-> "mqtt_on", http_url |-> "http_on",
      gateway |-> "dhcp_off" ]

GatedSetting ==
    [ mqtt_host |-> "mqtt_host", http_url |-> "http_url",
      gateway |-> "gateway" ]

\* every gated field of the claim
AllGated ==
    [ mqtt_host |-> "mqtt_on", mqtt_port |-> "mqtt_on",
      mqtt_login |-> "mqtt_on", mqtt_password |-> "mqtt_on",
      mqtt_topic |-> "mqtt_on", http_url |-> "http_on",
      static_ip |-> "dhcp_off", gateway |-> "dhcp_off",
      mask |-> "dhcp_off" ]

AllGatedSetting ==
    [ mqtt_host |-> "mqtt_host", mqtt_port |-> "mqtt_port",
      mqtt_login |-> "mqtt_login", mqtt_password |-> "mqtt_password",
      mqtt_topic |-> "mqtt_topic", http_url |-> "http_url",
      static_ip |-> "ip", gateway |-> "gateway", mask |-> "mask" ]

\* the flag after the document's own value has been applied
EffectiveFlag(doc, s, flag) ==
    IF Has(doc, flag) THEN (IF doc[flag] THEN 1 ELSE 0) ELSE s[flag]

\* C14: a gated field is left as it was when its flag, taken from the
\* document if the document carries it and from the settings otherwise, is
\* false; with the flag true a valid gated field is applied.
C14_GatedFields ==
    mcheck.done =>
        /\ \A k \in DOMAIN AllGated :
            EffectiveFlag(mcheck.doc, mcheck.before, AllGated[k]) = 0 =>
                mcheck.res.sett[AllGatedSetting[k]]
                    = mcheck.before[AllGatedSetting[k]]
        /\ \A k \in DOMAIN GateOf :
            (/\ Has(mcheck.doc, k)
             /\ EffectiveFlag(mcheck.doc, mcheck.before, GateOf[k]) # 0) =>
                mcheck.res.sett[GatedSetting[k]] = mcheck.doc[k]

\* the document switches MQTT off and names a host: the host stays
C14_Witness ==
    /\ mcheck.done
    /\ Has(mcheck.doc, "mqtt_on") /\ ~mcheck.doc["mqtt_on"]
    /\ Has(mcheck.doc, "mqtt_host")
    /\ mcheck.before.mqtt_on = 1
    /\ mcheck.res.sett.mqtt_on = 0
    /\ mcheck.res.sett.mqtt_host = mcheck.before.mqtt_host
    /\ mcheck.res.sett.mqtt_host # mcheck.doc["mqtt_host"]

\* the settings a field of MergeValues may write; none for the counter
\* types (they go to the peripheral) and for names the merge does not know
FieldSettings ==
    [ channel0 |-> {"channel0_start"}, channel1 |-> {"channel1_start"},
      factor0 |-> {"factor0"}, factor1 |-> {"factor1"},
      wakeup_per_min |-> {"wakeup_per_min", "period_min_tuned"},
      impulses0 |-> {"impulses0_start", "impulses0_previous"},
      ctype0 |-> {}, ctype1 |-> {},
      serial0 |-> {"serial0"}, ssid |-> {"wifi_ssid"},
      mqtt_on |-> {"mqtt_on"}, mqtt_host |-> {"mqtt_host"},
      mqtt_port |-> {"mqtt_port"}, mqtt_login |-> {"mqtt_login"},
      http_on |-> {"http_on"}, http_url |-> {"http_url"},
      dhcp_off |-> {"dhcp_off"}, static_ip |-> {"ip"},
      gateway |-> {"gateway"}, mdns_on |-> {"mdns_on"},
      comment |-> {}, version |-> {}, extra |-> {}, key |-> {} ]

UnknownFields == {"comment", "version", "extra"}

\* C15: a setting changes only if the document carries its field, the
\* peripheral only if it carries a counter type, and a document of the key
\* and unknown fields alone yields changed = false, no peripheral call and
\* no store_config.
C15_AbsentAndUnknownFields ==
    mcheck.done =>
        LET doc == mcheck.doc
            r == mcheck.res
        IN  /\ \A t \in DOMAIN mcheck.before :
                r.sett[t] # mcheck.before[t] =>
                    \E k \in DOMAIN doc : t \in FieldSettings[k]
            /\ r.attiny # mcheck.data =>
                    Has(doc, "ctype0") \/ Has(doc, "ctype1")
            /\ \A k \in UnknownFields :
                Has(doc, k) => SameOutcome(r, MergeAgain(Without(doc, {k})))
            /\ DOMAIN doc \subseteq UnknownFields \cup {"key"} =>
                /\ r.merged
                /\ ~r.ret
                /\ r.sett = mcheck.before
                /\ r.calls = <<>>
                /\ ~r.stored
                /\ r.ev = <<"merge">>

\* an authenticated document of three unknown fields, merged into settings
\* whose flags are all set
C15_Witness ==
    /\ mcheck.done
    /\ DOMAIN mcheck.doc = {"key", "comment", "version", "extra"}
    /\ mcheck.res.merged
    /\ mcheck.before.mqtt_on = 1
    /\ ~mcheck.res.ret

(***************************************************************************)
(* Properties of wake on consumption only (SpecWoc, Spec)                  *)
(* After WocCheck, at pc = "wifi", eeprom.sett still holds the settings    *)
(* as they were loaded at the wake and data the snapshot read at the wake. *)
(***************************************************************************)
\* the snapshot shows no impulse since the baselines were taken
ZeroDeltas ==
    /\ data.impulses0 = eeprom.sett.impulses0_previous
    /\ data.impulses1 = eeprom.sett.impulses1_previous

\* ceil(1440 / p), floored at 1
CeilThreshold(p) ==
    LET c == (24 * 60 + p - 1) \div p
    IN  IF c < 1 THEN 1 ELSE c

\* C16: with settings loaded, the cycle skips transmission exactly when the
\* wake is scheduled, wake_on_consumption_only is enabled, both deltas are
\* zero and wakeups_without_send is below the heartbeat threshold; a manual
\* wake never skips.
C16_SkipIff ==
    pc = "wifi" =>
        /\ skip_transmission <=>
            /\ mode = TRANSMIT_MODE
            /\ eeprom.sett.wake_on_consumption_only # 0
            /\ ZeroDeltas
            /\ startWakeups < HeartbeatThreshold(eeprom.sett)
        /\ mode = MANUAL_TRANSMIT_MODE => ~skip_transmission

\* P9: a manual wake with zero deltas and the counter at the threshold
\* goes on to transmit
C16_Witness ==
    /\ pc = "wifi"
    /\ mode = MANUAL_TRANSMIT_MODE
    /\ eeprom.sett.wake_on_consumption_only # 0
    /\ ZeroDeltas
    /\ startWakeups >= HeartbeatThreshold(eeprom.sett)
    /\ startWakeups > 1
    /\ ~skip_transmission

\* C17: the threshold of the skip decision is ceil(1440 / wakeup_per_min),
\* floored at 1.
C17_ThresholdIsCeil ==
    (/\ pc = "wifi"
     /\ mode = TRANSMIT_MODE
     /\ eeprom.sett.wake_on_consumption_only # 0) =>
        HeartbeatThreshold(eeprom.sett)
            = CeilThreshold(eeprom.sett.wakeup_per_min)

\* C18: with wakeup_per_min = 10, a zero-delta scheduled wake skips and
\* counts while fewer than 143 wakes have been skipped, the wake that finds
\* the counter at 143 (the 144th) transmits, and a transmission that
\* succeeded leaves the counter at 0.
C18_HeartbeatAt144 ==
    (/\ eeprom.sett.wakeup_per_min = 10
     /\ eeprom.sett.wake_on_consumption_only # 0
     /\ config_loaded) =>
        /\ (pc = "wifi" /\ mode = TRANSMIT_MODE /\ ZeroDeltas) =>
            /\ startWakeups < 143 =>
                /\ skip_transmission
                /\ sett.wakeups_without_send = startWakeups + 1
            /\ startWakeups = 143 => ~skip_transmission
        /\ (pc = "clear" /\ ~skip_transmission /\ "sent" \in Events) =>
            sett.wakeups_without_send = 0

\* C19: in a cycle that skips, the counter is one more than it was loaded
\* (65535 stays 65535), the baselines are the snapshot's impulse counts, and
\* these are the values in the image persisted at the end of the cycle.
C19_SkipCountsAndAdvances ==
    (skip_transmission /\ pc \in {"wifi", "clear", "sleep"}) =>
        LET s == IF pc = "sleep" THEN eeprom.sett ELSE sett
        IN  /\ s.wakeups_without_send =
                 IF startWakeups = UINT16_MAX THEN UINT16_MAX
                 ELSE startWakeups + 1
            /\ s.impulses0_previous = data.impulses0
            /\ s.impulses1_previous = data.impulses1
            /\ pc = "sleep" => eeprom.valid /\ eeprom.sett = sett

\* a skipped cycle has persisted its counter and baselines
C19_Witness ==
    /\ pc = "sleep"
    /\ skip_transmission
    /\ eeprom.sett.wakeups_without_send = startWakeups + 1
    /\ startWakeups > 0
    /\ data.impulses0 > 0
    /\ eeprom.sett.impulses0_previous = data.impulses0

\* C20: in a cycle that does not skip, wakeups_without_send differs at the
\* end from the value loaded only if a send succeeded in the cycle.
C20_ResetOnlyAfterSuccess ==
    (/\ pc \in {"clear", "sleep"}
     /\ config_loaded
     /\ ~skip_transmission
     /\ sett.wakeups_without_send # startWakeups) =>
        "sent" \in Events

(***************************************************************************)
(* The two entry points on their own: apply_config_from_response on every  *)
(* kind of response body and fetch_and_apply_remote_config on every        *)
(* outcome of the request, each with a device key that is set or empty.    *)
(***************************************************************************)
EntryKeys == {"k1", ""}

EntryDocs ==
    { [factor0 |-> 20],
      [key |-> "k2", factor0 |-> 20],
      [key |-> "", factor0 |-> 20],
      [key |-> "k1"],
      [key |-> "k1", factor0 |-> 20],
      [key |-> "k1", ctype0 |-> ELECTRONIC] }

ResponseLengths == {0, 9, 10, 40, REMOTE_CONFIG_MAX_SIZE,
                    REMOTE_CONFIG_MAX_SIZE + 1}

\* a body that does not parse carries no document; a body that parses as
\* an array has no members at all
ResponseBodies ==
    { [len |-> n, first |-> "{", parse_ok |-> TRUE, doc |-> d] :
      n \in ResponseLengths, d \in EntryDocs }
    \cup { [len |-> n, first |-> f, parse_ok |-> TRUE, doc |-> NoDoc] :
           n \in ResponseLengths, f \in {"[", "O"} }
    \cup { [len |-> n, first |-> f, parse_ok |-> FALSE, doc |-> NoDoc] :
           n \in ResponseLengths, f \in {"{", "[", "O"} }

BaseUrls ==
    { <<>>, <<"h">>, <<"h", "/">>, <<"h", "/", "/">>,
      <<"h", "/", "a">>, <<"h", "/", "a", "/">>,
      <<"h", "/", "a", "/", "/", "/">> }

EntrySettings(key) == [DefaultSettings EXCEPT !.waterius_key = key]

ApplyResponse ==
    /\ ~mcheck.done
    /\ \E body \in ResponseBodies, key \in EntryKeys, accept \in BOOLEAN :
        mcheck' = [done |-> TRUE, op |-> "response", body |-> body,
                   key |-> key, before |-> EntrySettings(key),
                   accept |-> accept,
                   res |-> apply_config_from_response(body, key,
                              EntrySettings(key), InitialAttiny,
                              InitialAttiny, MqttCounterContext, accept)]
    /\ UNCHANGED <<eeprom, attiny, sett, data, mqtt_ctx, json_data, mode,
                   config_loaded, skip_transmission, mqtt_connected, pc,
                   attempts, result, response_body, pushes, trace,
                   startFlag, exit, lastCalls, lastDoc, vcheck,
                   startWakeups>>

FetchAndApply ==
    /\ ~mcheck.done
    /\ \E out \in CycleOutcomes, key \in EntryKeys, url \in BaseUrls,
          accept \in BOOLEAN :
        LET r == fetch_and_apply_remote_config(key, EntrySettings(key),
                    InitialAttiny, InitialAttiny, MqttCounterContext, out,
                    accept)
        IN  mcheck' = [done |-> TRUE, op |-> "pull", out |-> out,
                       key |-> key, url |-> url,
                       before |-> EntrySettings(key), accept |-> accept,
                       fetch |-> fetch_config_from_server(key, out),
                       target |-> CfgUrl(url),
                       res |-> r]
    /\ UNCHANGED <<eeprom, attiny, sett, data, mqtt_ctx, json_data, mode,
                   config_loaded, skip_transmission, mqtt_connected, pc,
                   attempts, result, response_body, pushes, trace,
                   startFlag, exit, lastCalls, lastDoc, vcheck,
                   startWakeups>>

NextEntry == ApplyResponse \/ FetchAndApply \/ NextDocument

SpecEntry == Init /\ [][NextEntry]_vars

(***************************************************************************)
(* update_settings on its own: one message on every topic with every       *)
(* payload, before and after the data of the cycle has been assembled.     *)
(***************************************************************************)
PushParams == {"period_min", "f0", "f1", "ch0", "ch1", "cname0", "cname1",
               "ctype0", "ctype1", "other"}

PushTopics ==
    { <<"dev", p, "set">> : p \in PushParams }
    \cup { <<"dev", "ch0", "state">>, <<"dev", "ch0">> }

PushPayloads ==
    { <<>>, <<"0">>, <<"2">>, <<"3">>, <<"-", "1">>, <<"a", "b">>,
      <<"1", ".", "5">>, <<"0", ".", "0", "0", "1">>,
      <<"1", "2", ".", "3", "4", "5">>, <<"2", "5", "5">>,
      <<"6", "5", "5", "3", "6">> }

\* settings and snapshot of a device that has counted since its setup
PushSettings ==
    [DefaultSettings EXCEPT !.mqtt_on = 1, !.mqtt_host = "m",
                            !.channel0_start = 1000,
                            !.channel1_start = 2000,
                            !.impulses0_start = 1, !.impulses1_start = 2]

PushSnapshot == [InitialAttiny EXCEPT !.impulses0 = 5, !.impulses1 = 7]

PushUpdate ==
    /\ ~mcheck.done
    /\ \E topic \in PushTopics, payload \in PushPayloads,
          json \in {EmptyJson, get_json_data(PushSettings, PushSnapshot)},
          accept \in BOOLEAN :
        mcheck' = [done |-> TRUE, op |-> "push", topic |-> topic,
                   payload |-> payload, before |-> PushSettings,
                   data |-> PushSnapshot, json |-> json,
                   accept |-> accept,
                   res |-> update_settings(topic, payload, PushSettings,
                              PushSnapshot, json, MqttCounterContext,
                              PushSnapshot, accept)]
    /\ UNCHANGED <<eeprom, attiny, sett, data, mqtt_ctx, json_data, mode,
                   config_loaded, skip_transmission, mqtt_connected, pc,
                   attempts, result, response_body, pushes, trace,
                   startFlag, exit, lastCalls, lastDoc, vcheck,
                   startWakeups>>

NextPush == PushUpdate \/ NextDocument

SpecPush == Init /\ [][NextPush]_vars

(***************************************************************************)
(* The retry loops on their own: the send loop and mqtt_connect over       *)
(* every sequence of outcomes, one outcome more than a loop may use.       *)
(***************************************************************************)
RetryOutcomes ==
    { [begin |-> FALSE, code |-> 0, size |-> 0, body |-> EmptyBody],
      [begin |-> TRUE, code |-> 404, size |-> 40,
       body |-> JsonBody([key |-> "k1", factor0 |-> 30])],
      [begin |-> TRUE, code |-> 200, size |-> -1,
       body |-> JsonBody([key |-> "k1", factor0 |-> 40])],
      [begin |-> TRUE, code |-> 200, size |-> 40,
       body |-> [len |-> 40, first |-> "{", parse_ok |-> FALSE,
                 doc |-> NoDoc]],
      [begin |-> TRUE, code |-> 200, size |-> 40,
       body |-> JsonBody([key |-> "k1", factor0 |-> 20])] }

SendSequences == [1..(HTTP_SEND_ATTEMPTS + 1) -> RetryOutcomes]

ConnectSequences == [1..(MQTT_MAX_TRIES + 1) -> BOOLEAN]

RunSendLoop ==
    /\ ~mcheck.done
    /\ \E outs \in SendSequences :
        mcheck' = [done |-> TRUE, op |-> "send", outs |-> outs,
                   res |-> SendLoop(outs, 1, HTTP_SEND_ATTEMPTS, EmptyBody)]
    /\ UNCHANGED <<eeprom, attiny, sett, data, mqtt_ctx, json_data, mode,
                   config_loaded, skip_transmission, mqtt_connected, pc,
                   attempts, result, response_body, pushes, trace,
                   startFlag, exit, lastCalls, lastDoc, vcheck,
                   startWakeups>>

RunMqttConnect ==
    /\ ~mcheck.done
    /\ \E conns \in ConnectSequences :
        mcheck' = [done |-> TRUE, op |-> "mqtt", outs |-> conns,
                   res |-> mqtt_connect(conns, 1, MQTT_MAX_TRIES)]
    /\ UNCHANGED <<eeprom, attiny, sett, data, mqtt_ctx, json_data, mode,
                   config_loaded, skip_transmission, mqtt_connected, pc,
                   attempts, result, response_body, pushes, trace,
                   startFlag, exit, lastCalls, lastDoc, vcheck,
                   startWakeups>>

NextRetry == RunSendLoop \/ RunMqttConnect \/ NextDocument

SpecRetry == Init /\ [][NextRetry]_vars

(***************************************************************************)
(* Properties of the configuration entry points                            *)
(***************************************************************************)
\* how often an event occurs in the trace of the cycle
Count(e) == Cardinality({i \in 1..Len(trace) : trace[i] = e})

\* C21: in one cycle at most one document has fields applied: a merge that
\* changed Settings or the peripheral reports changed, a reported change
\* ends the cycle with a restart before any other document is fetched or
\* merged, and at most one pull fetch is issued.
C21_OneDocumentPerCycle ==
    /\ Count("pull") <= 1
    /\ Count("fetch") <= 1
    /\ Count("chg") <= 1
    /\ \A i \in 1..Len(trace) :
        trace[i] = "chg" =>
            \A j \in (i + 1)..Len(trace) :
                trace[j] \notin {"merge", "embed", "pull", "fetch", "chg"}
    /\ (lastDoc.merged /\ ~lastDoc.same) => lastDoc.ret
    /\ lastDoc.ret => pc = "boot" /\ exit = "restart"

\* the response to the data carried a document that changed nothing, the
\* pulled document then changed a setting and the cycle restarted
C21_Witness ==
    /\ Count("merge") = 2
    /\ Count("embed") = 1
    /\ Count("pull") = 1
    /\ Count("chg") = 1
    /\ lastDoc.src = "pull"
    /\ ~lastDoc.same
    /\ exit = "restart"

\* an untouched device: same Settings, no peripheral call, nothing stored
Untouched(r, before) ==
    /\ ~r.ret
    /\ r.sett = before
    /\ r.attiny = InitialAttiny
    /\ r.calls = <<>>
    /\ ~r.stored
    /\ r.ev = <<>>

\* a response body that apply_config_from_response may merge
Acceptable(body, key) ==
    /\ body.len >= 10
    /\ body.len <= REMOTE_CONFIG_MAX_SIZE
    /\ body.first \in {"{", "["}
    /\ body.parse_ok
    /\ Has(body.doc, "key")
    /\ body.doc.key = key

\* C22: apply_config_from_response merges a response body only if it has
\* 10 to REMOTE_CONFIG_MAX_SIZE characters, begins with '{' or '[', parses
\* and carries the device key; otherwise it returns false, Settings are
\* unchanged, the peripheral is not called and nothing is stored.
C22_ResponseBodyChecks ==
    (mcheck.done /\ mcheck.op = "response") =>
        /\ mcheck.res.merged <=> Acceptable(mcheck.body, mcheck.key)
        /\ ~Acceptable(mcheck.body, mcheck.key) =>
               Untouched(mcheck.res, mcheck.before)

\* a body of exactly 10 characters was merged and changed a setting
C22_Witness ==
    /\ mcheck.done
    /\ mcheck.op = "response"
    /\ mcheck.body.len = 10
    /\ mcheck.res.merged
    /\ mcheck.res.ret
    /\ mcheck.res.sett.factor0 = 20

\* the validator rejected a response for its declared size
RejectedForSize(v) ==
    /\ v.done
    /\ v.resp.code = 200
    /\ (v.resp.size <= 0 \/ v.resp.size > REMOTE_CONFIG_MAX_SIZE)

\* C23: a status-200 response that the validator rejects for a missing,
\* non-positive or too large declared size ends the send loop (no further
\* post) with a successful result, and the body that
\* apply_config_from_response receives is empty, so nothing is merged.
C23_RejectedSizeNotRetried ==
    RejectedForSize(vcheck) =>
        /\ pc \in {PcDone("waterius"), PcDone("http")}
        /\ result
        /\ response_body.len = 0
        /\ ~apply_config_from_response(response_body, sett.waterius_key,
                sett, data, attiny, mqtt_ctx, TRUE).merged

\* the first post of send_waterius got a 200 with a declared size above
\* the ceiling while embedded configuration is allowed
C23_Witness ==
    /\ RejectedForSize(vcheck)
    /\ vcheck.resp.size = REMOTE_CONFIG_MAX_SIZE + 1
    /\ pc = PcDone("waterius")
    /\ attempts = HTTP_SEND_ATTEMPTS
    /\ EmbeddedConfigAllowed(sett)

\* how many terminal events the trace of the cycle holds
Terminals == Count("sleep") + Count("restart")

\* C24: every wake cycle ends, and ends in exactly one terminal outcome,
\* sleep or a restart, whatever fails on the way; once the transmission
\* part is over without a restart the cycle goes through the Wi-Fi
\* shutdown with update_config and the final store_config to sleep.
C24_CycleTerminates ==
    /\ [](pc # "boot" => exit = "running" /\ Terminals = 0)
    /\ []((pc = "boot" /\ trace # <<>>) =>
            /\ exit \in {"sleep", "restart"}
            /\ Terminals = 1
            /\ Last(trace) = exit)
    /\ (pc # "boot") ~> (pc = "boot" /\ exit \in {"sleep", "restart"})
    /\ (pc = "finish") ~>
            (/\ pc = "boot"
             /\ exit = "sleep"
             /\ "shutdown" \in Events
             /\ {"store0", "store1"} \cap Events # {})

\* a cycle in which every post failed and the pull request failed too
\* has reached sleep
C24_Witness ==
    /\ pc = "boot"
    /\ exit = "sleep"
    /\ Count("pull") = 1
    /\ "sent" \notin Events
    /\ "merge" \notin Events
    /\ "shutdown" \in Events
    /\ "store0" \in Events

\* C25: the merge reports changed only if a setting, or the counter-type
\* pair of the peripheral, differs after the merge from its value before;
\* a document that repeats the stored values reports no change.
C25_ChangedOnlyOnDifference ==
    (mcheck.done /\ mcheck.res.merged /\ mcheck.res.ret) =>
        \/ mcheck.res.sett # mcheck.before
        \/ mcheck.res.attiny # mcheck.data

(***************************************************************************)
(* Properties of the push updates                                          *)
(***************************************************************************)
\* the non-negative decimal payloads and the number each one writes, in
\* thousandths
PayloadValue ==
    (<<"0">> :> 0) @@ (<<"2">> :> 2000) @@ (<<"3">> :> 3000) @@
    (<<"1", ".", "5">> :> 1500) @@ (<<"0", ".", "0", "0", "1">> :> 1) @@
    (<<"1", "2", ".", "3", "4", "5">> :> 12345) @@
    (<<"2", "5", "5">> :> 255000) @@
    (<<"6", "5", "5", "3", "6">> :> 65536000)

\* a message on .../<param>/set with a non-negative decimal payload
PushedNumber(param) ==
    /\ mcheck.done
    /\ mcheck.op = "push"
    /\ Len(mcheck.topic) = 3
    /\ mcheck.topic[2] = param
    /\ mcheck.topic[3] = "set"
    /\ mcheck.payload \in DOMAIN PayloadValue

\* C26: a push on .../ch0/set (ch1) with a non-negative numeric payload v
\* sets channel0_start (channel1_start) to v and impulses0_start
\* (impulses1_start) to the impulse count of the snapshot, reports
\* updated, and leaves the reading and baseline of the other channel alone.
C26_ChannelPush ==
    /\ PushedNumber("ch0") =>
        /\ mcheck.res.sett.channel0_start = PayloadValue[mcheck.payload]
        /\ mcheck.res.sett.impulses0_start = mcheck.data.impulses0
        /\ mcheck.res.updated
        /\ mcheck.res.sett.channel1_start = mcheck.before.channel1_start
        /\ mcheck.res.sett.impulses1_start = mcheck.before.impulses1_start
    /\ PushedNumber("ch1") =>
        /\ mcheck.res.sett.channel1_start = PayloadValue[mcheck.payload]
        /\ mcheck.res.sett.impulses1_start = mcheck.data.impulses1
        /\ mcheck.res.updated
        /\ mcheck.res.sett.channel0_start = mcheck.before.channel0_start
        /\ mcheck.res.sett.impulses0_start = mcheck.before.impulses0_start

\* "12.345" was pushed to ch0 of a device whose baseline was 1 and whose
\* snapshot counts 5 impulses
C26_Witness ==
    /\ PushedNumber("ch0")
    /\ mcheck.payload = <<"1", "2", ".", "3", "4", "5">>
    /\ mcheck.before.impulses0_start = 1
    /\ mcheck.res.sett.channel0_start = 12345
    /\ mcheck.res.sett.impulses0_start = 5

\* C27: the value echoed into the data to publish after a ch0 / ch1 push
\* is the payload rounded to three decimals: a payload that is a whole
\* number of thousandths is echoed unchanged.
C27_EchoIsRounded ==
    /\ (PushedNumber("ch0") /\ Has(mcheck.res.json, "ch0")) =>
            mcheck.res.json.ch0 = PayloadValue[mcheck.payload]
    /\ (PushedNumber("ch1") /\ Has(mcheck.res.json, "ch1")) =>
            mcheck.res.json.ch1 = PayloadValue[mcheck.payload]

(***************************************************************************)
(* Properties of the counter types in a merge                              *)
(***************************************************************************)
\* C28: every setCountersType call of the merge carries two values of
\* {NAMUR, ELECTRONIC, NONE}; when a resulting value of the pair, from the
\* document or from the snapshot, is outside that set there is no call and
\* the outcome is that of the document without the counter types.
C28_OnlyPermittedTypes ==
    (mcheck.done /\ mcheck.res.merged) =>
        LET doc == mcheck.doc
            r == mcheck.res
            ct0 == ResultingType(doc, "ctype0", mcheck.data.counter_type0)
            ct1 == ResultingType(doc, "ctype1", mcheck.data.counter_type1)
        IN  /\ \A i \in 1..Len(r.calls) :
                /\ r.calls[i].ct0 \in PermittedTypes
                /\ r.calls[i].ct1 \in PermittedTypes
            /\ ((Has(doc, "ctype0") \/ Has(doc, "ctype1"))
                /\ ~(ct0 \in PermittedTypes /\ ct1 \in PermittedTypes)) =>
                    /\ r.calls = <<>>
                    /\ r.attiny = mcheck.data
                    /\ SameOutcome(r,
                          MergeAgain(Without(doc, {"ctype0", "ctype1"})))

\* a document names a permitted ctype1 only, the snapshot holds a type of
\* channel 0 that is not permitted: no call, factor still applied
C28_Witness ==
    /\ mcheck.done
    /\ mcheck.accept
    /\ ~Has(mcheck.doc, "ctype0")
    /\ Has(mcheck.doc, "ctype1")
    /\ mcheck.doc["ctype1"] = ELECTRONIC
    /\ mcheck.data.counter_type0 = 3
    /\ mcheck.res.calls = <<>>
    /\ mcheck.res.attiny = mcheck.data

(***************************************************************************)
(* Properties of the pull request                                          *)
(***************************************************************************)
\* C29: with an empty device key fetch_config_from_server yields no
\* document and creates no client, opens no connection and sends no
\* request; fetch_and_apply_remote_config then returns false and leaves
\* Settings, the peripheral and the persisted image alone.
C29_EmptyKeyNoRequest ==
    (mcheck.done /\ mcheck.op = "pull" /\ mcheck.key = "") =>
        /\ ~mcheck.fetch.ok
        /\ ~mcheck.fetch.client
        /\ ~mcheck.fetch.sent
        /\ Untouched(mcheck.res, mcheck.before)
        /\ ~mcheck.res.merged

\* the key is empty and the server would have answered with a document
C29_Witness ==
    /\ mcheck.done
    /\ mcheck.op = "pull"
    /\ mcheck.key = ""
    /\ mcheck.out.begin
    /\ mcheck.out.code = 200
    /\ mcheck.out.body.parse_ok
    /\ Has(mcheck.out.body.doc, "factor0")
    /\ ~mcheck.res.ret

\* the base address without its trailing separators
RECURSIVE Stripped(_)
Stripped(url) ==
    IF Len(url) > 0 /\ url[Len(url)] = "/"
    THEN Stripped(SubSeq(url, 1, Len(url) - 1))
    ELSE url

\* C30: for every base address, also one that ends with one or several
\* '/', the target of the pull request is the base address with its
\* trailing separators reduced to exactly one, followed by "cfg".
C30_OneSeparatorBeforeCfg ==
    (mcheck.done /\ mcheck.op = "pull" /\ mcheck.fetch.client) =>
        mcheck.target = Stripped(mcheck.url) \o <<"/", "c", "f", "g">>

(***************************************************************************)
(* Properties of the retry loops                                           *)
(***************************************************************************)
\* an exchange that returned status 200
Status200(o) == o.begin /\ o.code = 200

\* C31: the send loop makes 1 to HTTP_SEND_ATTEMPTS posts, stops at the
\* first one that returns 200 and reports success exactly when its last
\* post returned 200; mqtt_connect makes 1 to MQTT_MAX_TRIES connects and
\* stops at the first success.  Both end for every sequence of outcomes.
C31_BoundedRetries ==
    /\ (mcheck.done /\ mcheck.op = "send") =>
        LET n == mcheck.res.made
        IN  /\ n \in 1..HTTP_SEND_ATTEMPTS
            /\ \A i \in 1..(n - 1) : ~Status200(mcheck.outs[i])
            /\ mcheck.res.result <=> Status200(mcheck.outs[n])
            /\ n < HTTP_SEND_ATTEMPTS => Status200(mcheck.outs[n])
    /\ (mcheck.done /\ mcheck.op = "mqtt") =>
        LET n == mcheck.res.made
        IN  /\ n \in 1..MQTT_MAX_TRIES
            /\ \A i \in 1..(n - 1) : ~mcheck.outs[i]
            /\ mcheck.res.ret <=> mcheck.outs[n]
            /\ n < MQTT_MAX_TRIES => mcheck.outs[n]

\* three posts failed although a fourth one would have succeeded
C31_Witness ==
    /\ mcheck.done
    /\ mcheck.op = "send"
    /\ mcheck.res.made = HTTP_SEND_ATTEMPTS
    /\ ~mcheck.res.result
    /\ Status200(mcheck.outs[HTTP_SEND_ATTEMPTS + 1])

(***************************************************************************)
(* Properties of the cycle after a restart                                 *)
(***************************************************************************)
\* a wake that follows a restart for a changed configuration, with the
\* guard flag persisted, the settings loaded and the wake reason unchanged
WakeAfterConfigRestart ==
    /\ pc = "boot"
    /\ exit = "restart"
    /\ "chg" \in Events
    /\ eeprom.valid
    /\ eeprom.sett.config_restart_pending # 0
    /\ pc' = "woc"
    /\ mode' = mode

\* C32: the cycle that follows a config-triggered restart does not take the
\* wake-on-consumption skip path, whatever the merged document changed.
C32_NoSkipAfterConfigRestart ==
    [][WakeAfterConfigRestart =>
          ~WocDecision(config_loaded', sett', data', mode').skip]_vars

\* C33: the body that the send loop leaves for apply_config_from_response
\* after a success is empty, or it is the body of the last post and the
\* validator accepted it (status 200, declared size 1..REMOTE_CONFIG_MAX_SIZE);
\* never the body of an earlier attempt and never an unvalidated one.
C33_OnlyValidatedFinalBody ==
    (mcheck.done /\ mcheck.op = "send" /\ mcheck.res.result) =>
        LET o == mcheck.outs[mcheck.res.made]
        IN  /\ Status200(o)
            /\ \/ mcheck.res.body = EmptyBody
               \/ /\ o.size > 0
                  /\ o.size <= REMOTE_CONFIG_MAX_SIZE
                  /\ mcheck.res.body = o.body

\* the first post got a 404 with a document in its body, the second one a
\* 200 with another document: the second body is the one kept
C33_Witness ==
    /\ mcheck.done
    /\ mcheck.op = "send"
    /\ mcheck.res.result
    /\ mcheck.res.made = 2
    /\ mcheck.outs[1].code = 404
    /\ mcheck.outs[1].body.doc.factor0 = 30
    /\ mcheck.res.body.parse_ok
    /\ mcheck.res.body.doc.factor0 = 20

(***************************************************************************)
(* Properties of push messages with unusual payloads                       *)
(***************************************************************************)
FieldParams == {"period_min", "f0", "f1", "ch0", "ch1", "cname0", "cname1",
                "ctype0", "ctype1"}

\* a message on .../<field>/set
FieldPush ==
    /\ mcheck.done
    /\ mcheck.op = "push"
    /\ Len(mcheck.topic) = 3
    /\ mcheck.topic[2] \in FieldParams
    /\ mcheck.topic[3] = "set"

\* C34: a message with an empty payload, which is what mqtt_callback
\* publishes to the topic it received, changes no setting, calls the
\* peripheral not at all and reports updated = false on every field topic.
C34_EmptyPayloadIgnored ==
    (FieldPush /\ mcheck.payload = <<>>) =>
        /\ mcheck.res.sett = mcheck.before
        /\ mcheck.res.calls = <<>>
        /\ mcheck.res.attiny = mcheck.data
        /\ ~mcheck.res.updated

\* the declared ranges of the numeric settings, readings in thousandths
NumericInRange(s) ==
    /\ s.wakeup_per_min \in 1..1440
    /\ s.factor0 \in 1..10000
    /\ s.factor1 \in 1..10000
    /\ s.channel0_start \in 0..(999999 * 1000)
    /\ s.channel1_start \in 0..(999999 * 1000)

\* C35: a push update on settings that are in range leaves wakeup_per_min
\* in 1..1440, the factors in 1..10000 and the readings in 0..999999.
C35_NumericRangesKept ==
    (mcheck.done /\ mcheck.op = "push" /\ NumericInRange(mcheck.before)) =>
        NumericInRange(mcheck.res.sett)

\* C36: every setCountersType call of a push carries two values of
\* {NAMUR, ELECTRONIC, NONE}, and the session context holds only such
\* values or the marker of a context not yet initialised.
C36_PushOnlyPermittedTypes ==
    (mcheck.done /\ mcheck.op = "push") =>
        /\ \A i \in 1..Len(mcheck.res.calls) :
            /\ mcheck.res.calls[i].ct0 \in PermittedTypes
            /\ mcheck.res.calls[i].ct1 \in PermittedTypes
        /\ mcheck.res.ctx.ctype0 \in PermittedTypes \cup {-1}
        /\ mcheck.res.ctx.ctype1 \in PermittedTypes \cup {-1}

(***************************************************************************)
(* Properties of the heartbeat bound and of the empty device key           *)
(***************************************************************************)
\* T = max(1, 1440 div p)
MaxSkips(p) == IF 1440 \div p = 0 THEN 1 ELSE 1440 \div p

\* C37: with wake_on_consumption_only enabled and the period p unchanged
\* the counter never exceeds T = max(1, 1440 div p); every skipped wake
\* raises it by one and a scheduled wake that finds it at T does not skip,
\* so at most T scheduled wakes in a row skip.
C37_HeartbeatWithinT ==
    /\ (eeprom.valid /\ eeprom.sett.wake_on_consumption_only # 0) =>
            eeprom.sett.wakeups_without_send
                <= MaxSkips(eeprom.sett.wakeup_per_min)
    /\ (config_loaded /\ sett.wake_on_consumption_only # 0
        /\ pc \notin {"boot", "setup"}) =>
            sett.wakeups_without_send <= MaxSkips(sett.wakeup_per_min)
    /\ (skip_transmission /\ pc \in {"wifi", "clear", "sleep"}) =>
            sett.wakeups_without_send = startWakeups + 1
    /\ (config_loaded /\ pc \in {"wifi", "clear", "sleep"}
        /\ startWakeups >= MaxSkips(sett.wakeup_per_min)) =>
            ~skip_transmission

\* the scheduled wake after T = 144 skipped ones, without any consumption,
\* does not skip
C37_Witness ==
    /\ pc = "wifi"
    /\ config_loaded
    /\ mode = TRANSMIT_MODE
    /\ sett.wake_on_consumption_only # 0
    /\ sett.wakeup_per_min = 10
    /\ startWakeups = 144
    /\ Delta0(sett, data) = 0
    /\ Delta1(sett, data) = 0
    /\ ~skip_transmission

\* C38: with an empty device key apply_config_from_response merges no
\* response body, not even one whose "key" member is the empty string.
C38_NoMergeWithEmptyKey ==
    (mcheck.done /\ mcheck.op = "response" /\ mcheck.key = "") =>
        /\ ~mcheck.res.merged
        /\ mcheck.res.sett = mcheck.before

====
